---------------------------- MODULE Spec2Model ----------------------------
(***************************************************************************)
(* Model of the FEC aggregation engine (lib/fecProcessor.ts) of the iter   *)
(* repository: validation of journal entries, global balance, the          *)
(* category > sub-category > concept > account roll-up, and the account    *)
(* inventories.                                                            *)
(*                                                                         *)
(* Conventions                                                             *)
(*  - A JS string that the code inspects character by character (account   *)
(*    numbers, dates, journal-entry ids, numeric strings) is a sequence of *)
(*    one-character strings.  Names that are only compared and            *)
(*    concatenated (category, sub-category, concept, labels) are strings.  *)
(*  - A JS number is a record [nan, v]: v is the value in thousandths      *)
(*    (100.00 is 100000), nan marks NaN.  Arithmetic is exact on v;        *)
(*    binary floating-point rounding error is not modelled.                *)
(*  - A debit/credit field is a record [kind, num, str], kind being the    *)
(*    JS typeof of the field ("number", "string") or "undefined".          *)
(***************************************************************************)
EXTENDS Integers, Sequences, FiniteSets, TLC

VARIABLES entries, customMappings, pc, validationResult, globalBalance,
          unmappedEntries, operatingModel, allAccounts, call, returned,
          unmappedAccounts, isProcessing, error

vars == <<entries, customMappings, pc, validationResult, globalBalance,
          unmappedEntries, operatingModel, allAccounts, call, returned,
          unmappedAccounts, isProcessing, error>>

---------------------------------------------------------------------------
(* Bounds of the model *)

MaxEntries == 3

MaxLines == 2

---------------------------------------------------------------------------
(* JS numbers *)

Num(v) == [nan |-> FALSE, v |-> v]

NaN == [nan |-> TRUE, v |-> 0]

Add(a, b) == IF a.nan \/ b.nan THEN NaN ELSE Num(a.v + b.v)

Sub(a, b) == IF a.nan \/ b.nan THEN NaN ELSE Num(a.v - b.v)

Abs(a) == IF a.nan THEN NaN ELSE Num(IF a.v < 0 THEN -a.v ELSE a.v)

\* a > b and a < b: any comparison with NaN is false
Gt(a, b) == ~a.nan /\ ~b.nan /\ a.v > b.v

Lt(a, b) == ~a.nan /\ ~b.nan /\ a.v < b.v

\* x || 0 on a number: 0 and NaN are falsy
OrZero(a) == IF a.nan \/ a.v = 0 THEN Num(0) ELSE a

---------------------------------------------------------------------------
(* Values built once: TLC evaluates a function constructor anew at every   *)
(* use unless it is turned into an explicit tuple or function first.       *)

Built(seq) == <<>> \o seq

BuiltFcn(f) == f @@ <<>>

\* Body(x), x evaluated once
With(x, Body(_)) == CHOOSE r \in {Body(v) : v \in {x}} : TRUE

---------------------------------------------------------------------------
(* JS strings as sequences of characters *)

DigitChars == <<"0", "1", "2", "3", "4", "5", "6", "7", "8", "9">>

IsDigit(c) == \E i \in 1..10 : DigitChars[i] = c

DigitValue(c) == (CHOOSE i \in 1..10 : DigitChars[i] = c) - 1

\* String.prototype.trim
Trim(s) ==
  LET keep == {i \in 1..Len(s) : s[i] # " "}
  IN  IF keep = {} THEN <<>>
      ELSE LET lo == CHOOSE i \in keep : \A j \in keep : i <= j
               hi == CHOOSE i \in keep : \A j \in keep : j <= i
           IN  SubSeq(s, lo, hi)

\* String.prototype.padEnd(n, c)
PadEnd(s, n, c) ==
  IF Len(s) >= n THEN s ELSE s \o [i \in 1..(n - Len(s)) |-> c]

\* String.prototype.replace(",", "."): the first occurrence only
ReplaceComma(s) ==
  LET hits == {i \in 1..Len(s) : s[i] = ","}
  IN  IF hits = {} THEN s
      ELSE LET k == CHOOSE i \in hits : \A j \in hits : i <= j
           IN  [i \in 1..Len(s) |-> IF i = k THEN "." ELSE s[i]]

\* the longest prefix of s made of digits
DigitPrefix(s) ==
  LET bad == {i \in 1..Len(s) : ~IsDigit(s[i])}
  IN  IF bad = {} THEN s
      ELSE SubSeq(s, 1, (CHOOSE i \in bad : \A j \in bad : i <= j) - 1)

\* the value of a sequence of digits
ToInt(s) ==
  LET f[i \in 0..Len(s)] == IF i = 0 THEN 0 ELSE 10 * f[i - 1] + DigitValue(s[i])
  IN  f[Len(s)]

\* parseFloat: optional blanks, optional sign, digits, optional fraction; NaN
\* when no digit is found.  The fraction is kept to three decimals.
ParseFloat(s) ==
  LET t    == Trim(s)
      neg  == t # <<>> /\ t[1] = "-"
      u    == IF t # <<>> /\ t[1] \in {"-", "+"} THEN Tail(t) ELSE t
      ip   == DigitPrefix(u)
      rest == SubSeq(u, Len(ip) + 1, Len(u))
      fp   == IF rest # <<>> /\ rest[1] = "." THEN DigitPrefix(Tail(rest)) ELSE <<>>
      frac == ToInt(SubSeq(PadEnd(fp, 3, "0"), 1, 3))
      mag  == ToInt(ip) * 1000 + frac
  IN  IF ip = <<>> /\ fp = <<>> THEN NaN
      ELSE Num(IF neg THEN -mag ELSE mag)

---------------------------------------------------------------------------
(* Debit / Credit fields *)

NumField(v) == [kind |-> "number", num |-> Num(v), str |-> <<>>]

StrField(s) == [kind |-> "string", num |-> Num(0), str |-> s]

Undefined == [kind |-> "undefined", num |-> Num(0), str |-> <<>>]

\* typeof x === "string" ? parseFloat(x.replace(",", ".")) : x || 0
ParseAmount(f) ==
  IF f.kind = "string" THEN ParseFloat(ReplaceComma(f.str))
  ELSE IF f.kind = "number" THEN OrZero(f.num)
  ELSE Num(0)

---------------------------------------------------------------------------
(* Ordering of strings and of object keys *)

\* the characters of the model in ascending UTF-16 code-unit order
CharOrder == <<" ", "+", ",", "-", ".", "0", "1", "2", "3", "4", "5", "6",
               "7", "8", "9", "a", "b", "c">>

CharRank(c) == CHOOSE i \in 1..Len(CharOrder) : CharOrder[i] = c

\* a < b in the default order of Array.prototype.sort (code units)
LexLess(a, b) ==
  LET n    == IF Len(a) < Len(b) THEN Len(a) ELSE Len(b)
      diff == {i \in 1..n : a[i] # b[i]}
  IN  IF diff = {} THEN Len(a) < Len(b)
      ELSE LET k == CHOOSE i \in diff : \A j \in diff : i <= j
           IN  CharRank(a[k]) < CharRank(b[k])

\* the elements of a finite set of strings, ascending
SortedStrings(S) ==
  LET f[T \in SUBSET S] ==
        IF T = {} THEN <<>>
        ELSE LET m == CHOOSE x \in T : \A y \in T : x = y \/ LexLess(x, y)
             IN  <<m>> \o f[T \ {m}]
  IN  f[S]

\* the distinct elements of a sequence, in order of first occurrence (_.uniq)
Uniq(s) ==
  LET f[i \in 0..Len(s)] ==
        IF i = 0 THEN <<>>
        ELSE IF \E j \in 1..(i - 1) : s[j] = s[i] THEN f[i - 1]
        ELSE Append(f[i - 1], s[i])
  IN  f[Len(s)]

\* an own property key that is an array index: a canonical numeral of at
\* most 2^32 - 2 (compared as a string: such numerals do not fit the
\* model's integers)
IsArrayIndex(k) ==
  /\ Len(k) >= 1
  /\ \A i \in 1..Len(k) : IsDigit(k[i])
  /\ (Len(k) = 1 \/ k[1] # "0")
  /\ \/ Len(k) < 10
     \/ /\ Len(k) = 10
        /\ ~LexLess(<<"4", "2", "9", "4", "9", "6", "7", "2", "9", "4">>, k)

\* the numeric order of two canonical numerals
IndexLeq(a, b) == Len(a) < Len(b) \/ (Len(a) = Len(b) /\ ~LexLess(b, a))

\* the order in which Object.keys / Object.entries / Object.values visit the
\* keys of an object whose keys were inserted in the order of `inserted`:
\* array indices ascending, then the other keys in insertion order
ObjectKeys(inserted) ==
  LET all == {inserted[i] : i \in 1..Len(inserted)}
      idx == {k \in all : IsArrayIndex(k)}
      byValue[T \in SUBSET idx] ==
        IF T = {} THEN <<>>
        ELSE LET m == CHOOSE x \in T : \A y \in T : IndexLeq(x, y)
             IN  <<m>> \o byValue[T \ {m}]
  IN  byValue[idx] \o SelectSeq(Uniq(inserted), LAMBDA k : ~IsArrayIndex(k))

---------------------------------------------------------------------------
(* Helpers of lib/fecProcessor.ts *)

NormLen == 9

\* normalizeAccountNumber without the trim()
normalizeAccountNumberUntrimmed(compteNum) ==
  IF compteNum = <<>> THEN <<>> ELSE PadEnd(compteNum, NormLen, "0")

normalizeAccountNumber(compteNum) ==
  LET cleaned == Trim(compteNum)
  IN  IF cleaned = <<>> THEN <<>> ELSE PadEnd(cleaned, NormLen, "0")

\* extractMonthKey without the trim()
extractMonthKeyUntrimmed(ecritureDate) ==
  IF Len(ecritureDate) >= 6
  THEN SubSeq(ecritureDate, 1, 4) \o <<"-">> \o SubSeq(ecritureDate, 5, 6)
  ELSE <<>>

extractMonthKey(ecritureDate) ==
  LET dateStr == Trim(ecritureDate)
  IN  IF Len(dateStr) >= 6
      THEN SubSeq(dateStr, 1, 4) \o <<"-">> \o SubSeq(dateStr, 5, 6)
      ELSE <<>>

isBalanceSheetCategory(category) ==
  category \in {"Current Assets", "Current Liabilities",
                "Equity & Long-term Funding", "Non-Current Assets"}

\* Math.round(p / step) * step for p in millionths and step in units; the
\* result is in thousandths.  Math.round rounds halves towards +infinity.
\* (The model's integers hold p for amounts up to 1800.00.)
\* RoundToStep with Math.floor in place of Math.round
RoundToStepFloor(p, step) ==
  (p \div (step * 1000000)) * step * 1000

RoundToStep(p, step) ==
  ((p + step * 500000) \div (step * 1000000)) * step * 1000

\* generateMockBudget with Math.random() = r / 100
generateMockBudget(actualAmount, r) ==
  IF ~actualAmount.nan /\ actualAmount.v = 0 THEN Num(0)
  ELSE IF actualAmount.nan THEN NaN
  ELSE LET variation == 850 + 3 * r
           budget    == actualAmount.v * variation
           absVal    == IF budget < 0 THEN -budget ELSE budget
       IN  IF absVal < 100 * 1000000 THEN Num(RoundToStep(budget, 10))
           ELSE IF absVal < 1000 * 1000000 THEN Num(RoundToStep(budget, 50))
           ELSE Num(RoundToStep(budget, 100))

\* calculateCumulativeAmounts: running total over the sorted month keys
calculateCumulativeAmounts(monthlyAmounts) ==
  LET sortedMonths == SortedStrings(DOMAIN monthlyAmounts)
      run[i \in 0..Len(sortedMonths)] ==
        IF i = 0 THEN Num(0) ELSE Add(run[i - 1], monthlyAmounts[sortedMonths[i]])
  IN  BuiltFcn([m \in DOMAIN monthlyAmounts |->
                  run[CHOOSE i \in 1..Len(sortedMonths) : sortedMonths[i] = m]])

---------------------------------------------------------------------------
(* The static mapping table, lib/mapping.ts: an exact table keyed by the   *)
(* 9-character account number and a fallback that tries the exact table    *)
(* and then the longest matching prefix rule.                              *)

Null == [isNull |-> TRUE]

Acc613520030 == <<"6", "1", "3", "5", "2", "0", "0", "3", "0">>

Acc61352003 == <<"6", "1", "3", "5", "2", "0", "0", "3">>

Acc512000000 == <<"5", "1", "2", "0", "0", "0", "0", "0", "0">>

Acc701000000 == <<"7", "0", "1", "0", "0", "0", "0", "0", "0">>

Acc411000000 == <<"4", "1", "1", "0", "0", "0", "0", "0", "0">>

Acc411 == <<"4", "1", "1">>

Acc999 == <<"9", "9", "9">>

Acc999000000 == <<"9", "9", "9", "0", "0", "0", "0", "0", "0">>

MAPPING_RULES ==
  << [account |-> Acc613520030, concept |-> "Software",
      grandeCategorie |-> "Operating Expenses (OPEX)",
      sousCategorie |-> "R&D Expenses"],
     [account |-> Acc512000000, concept |-> "Bank",
      grandeCategorie |-> "Current Assets", sousCategorie |-> "Cash"],
     [account |-> Acc701000000, concept |-> "Sales",
      grandeCategorie |-> "Revenue", sousCategorie |-> "Product Revenue"],
     [account |-> Acc411000000, concept |-> "Trade Receivables",
      grandeCategorie |-> "Current Assets", sousCategorie |-> "Receivables"] >>

FALLBACK_RULES ==
  << [prefix |-> <<"4", "1">>,
      mapping |-> [account |-> Acc411000000, concept |-> "Customers",
                   grandeCategorie |-> "Current Assets",
                   sousCategorie |-> "Receivables"]] >>

IsPrefix(p, s) == Len(p) <= Len(s) /\ SubSeq(s, 1, Len(p)) = p

\* exact lookup
getMappingForAccount(accountNumber) ==
  LET hits == {i \in 1..Len(MAPPING_RULES) : MAPPING_RULES[i].account = accountNumber}
  IN  IF hits = {} THEN Null
      ELSE MAPPING_RULES[CHOOSE i \in hits : \A j \in hits : i <= j]

\* exact lookup, then the longest prefix rule
getMappingWithFallback(accountNumber) ==
  LET exact == getMappingForAccount(accountNumber)
      hits  == {i \in 1..Len(FALLBACK_RULES) :
                  IsPrefix(FALLBACK_RULES[i].prefix, accountNumber)}
  IN  IF exact # Null THEN exact
      ELSE IF hits = {} THEN Null
      ELSE FALLBACK_RULES[CHOOSE i \in hits : \A j \in hits :
             Len(FALLBACK_RULES[j].prefix) <= Len(FALLBACK_RULES[i].prefix)].mapping

---------------------------------------------------------------------------
(* validateEcritures and calculateGlobalBalance *)

\* sum of F over a sequence, left to right from 0 (Array.prototype.reduce)
SumSeq(s, F(_)) ==
  LET f[i \in 0..Len(s)] == IF i = 0 THEN Num(0) ELSE Add(f[i - 1], F(s[i]))
  IN  f[Len(s)]

EntryDebit(e) == ParseAmount(e.Debit)

EntryCredit(e) == ParseAmount(e.Credit)

ValidateTolerance == 10

BalanceTolerance == 10

\* IsUnbalanced with the tolerance bound taken as inclusive
IsUnbalancedInclusive(difference) ==
  ~difference.nan /\ difference.v >= ValidateTolerance

\* difference > 0.01
IsUnbalanced(difference) == Gt(difference, Num(ValidateTolerance))

\* Math.abs(netBalance) < 0.01
IsBalanced(netBalance) == Lt(Abs(netBalance), Num(BalanceTolerance))

\* the lines of one journal entry: a group of _.groupBy(entries, "EcritureNum")
LinesOf(es, ecritureNum) == SelectSeq(es, LAMBDA e : e.EcritureNum = ecritureNum)

validateEcritures(es) ==
  LET keys == ObjectKeys(Built([i \in 1..Len(es) |-> es[i].EcritureNum]))
      Row(k) == LET lines       == LinesOf(es, k)
                    totalDebit  == SumSeq(lines, EntryDebit)
                    totalCredit == SumSeq(lines, EntryCredit)
                IN  [ecritureNum |-> k, totalDebit |-> totalDebit,
                     totalCredit |-> totalCredit,
                     difference |-> Abs(Sub(totalDebit, totalCredit))]
      unbalancedEcritures ==
        SelectSeq(Built([i \in 1..Len(keys) |-> Row(keys[i])]),
                  LAMBDA r : IsUnbalanced(r.difference))
  IN  [isValid |-> Len(unbalancedEcritures) = 0,
       unbalancedEcritures |-> unbalancedEcritures]

calculateGlobalBalance(es) ==
  LET totalDebit  == SumSeq(es, EntryDebit)
      totalCredit == SumSeq(es, EntryCredit)
      netBalance  == Sub(totalDebit, totalCredit)
  IN  [totalDebit |-> totalDebit, totalCredit |-> totalCredit,
       netBalance |-> netBalance, isBalanced |-> IsBalanced(netBalance)]

---------------------------------------------------------------------------
(* processRawFEC *)

\* the override of an entry, null without one
OverrideOf(e, cm) ==
  LET compteNum == normalizeAccountNumber(e.CompteNum)
  IN  IF compteNum \in DOMAIN cm
      THEN [account |-> compteNum, concept |-> cm[compteNum].concept,
            grandeCategorie |-> cm[compteNum].grandeCategorie,
            sousCategorie |-> cm[compteNum].sousCategorie]
      ELSE Null

FirstHit(mappings) ==
  LET hits == {i \in 1..Len(mappings) : mappings[i] # Null}
  IN  IF hits = {} THEN Null
      ELSE mappings[CHOOSE i \in hits : \A j \in hits : i <= j]

\* ResolveMapping that gives the first rule of the table to an account that
\* nothing resolves
ResolveMappingCatchAll(e, cm) ==
  FirstHit(<<OverrideOf(e, cm), getMappingWithFallback(e.CompteNum),
             getMappingForAccount(normalizeAccountNumber(e.CompteNum)),
             MAPPING_RULES[1]>>)

\* ResolveMapping that consults the static table before the overrides
ResolveMappingStaticFirst(e, cm) ==
  FirstHit(<<getMappingWithFallback(e.CompteNum),
             getMappingForAccount(normalizeAccountNumber(e.CompteNum)),
             OverrideOf(e, cm)>>)

\* ResolveMapping that tries the exact table on the normalized number before
\* the fallback on the raw number
ResolveMappingExactFirst(e, cm) ==
  FirstHit(<<OverrideOf(e, cm),
             getMappingForAccount(normalizeAccountNumber(e.CompteNum)),
             getMappingWithFallback(e.CompteNum)>>)

\* steps 1 of processRawFEC: the mapping of one entry.  The session override
\* for the normalized number, else the fallback on the raw number, else the
\* exact table on the normalized number, else null.
ResolveMapping(e, cm) ==
  LET compteNum == normalizeAccountNumber(e.CompteNum)
      mapping   == IF compteNum \in DOMAIN cm
                   THEN [account |-> compteNum, concept |-> cm[compteNum].concept,
                         grandeCategorie |-> cm[compteNum].grandeCategorie,
                         sousCategorie |-> cm[compteNum].sousCategorie]
                   ELSE getMappingWithFallback(e.CompteNum)
  IN  IF mapping # Null THEN mapping
      ELSE getMappingForAccount(normalizeAccountNumber(e.CompteNum))

\* netAmount = debit - credit
NetAmount(e) == Sub(EntryDebit(e), EntryCredit(e))

\* { ...entry, mapping, netAmount }
MapEntry(e, cm) ==
  [entry |-> e, mapping |-> ResolveMapping(e, cm), netAmount |-> NetAmount(e)]

\* .map(...).filter((e) => e.mapping !== null)
MappedEntries(es, cm) ==
  SelectSeq(Built([i \in 1..Len(es) |-> MapEntry(es[i], cm)]),
            LAMBDA x : x.mapping # Null)

\* the keys of _.groupBy over names, in order of first occurrence (the names
\* of the model are not array indices)
GroupNames(ms, Key(_)) == Uniq(Built([i \in 1..Len(ms) |-> Key(ms[i])]))

\* (object[key] || 0) + value, over the contributions to one key in order
AccumulateKey(values) ==
  LET f[i \in 0..Len(values)] ==
        IF i = 0 THEN Num(0) ELSE Add(OrZero(f[i - 1]), values[i])
  IN  f[Len(values)]

EntryMonth(x) == extractMonthKey(x.entry.EcritureDate)

\* the month keys of a group of mapped entries, in order of first insertion
MonthsOf(des) ==
  SelectSeq(Uniq(Built([i \in 1..Len(des) |-> EntryMonth(des[i])])),
            LAMBDA m : m # <<>>)

\* lines 313-318: the raw monthly amounts of one account detail
DetailMonthlyAmounts(des) ==
  BuiltFcn([m \in {EntryMonth(des[i]) : i \in 1..Len(des)} \ {<<>>} |->
              With(SelectSeq(des, LAMBDA x : EntryMonth(x) = m),
                   LAMBDA inMonth :
                     AccumulateKey(Built([i \in 1..Len(inMonth) |->
                                            inMonth[i].netAmount])))])

\* lines 298-319 and 328-331: the AccountDetail of account a, from the
\* entries des of the concept that carry that account number
AccountDetail(a, des, draw) ==
  With(DetailMonthlyAmounts(des),
       LAMBDA amounts :
         [compteNum |-> a,
          compteLib |-> des[1].entry.CompteLib,
          netAmount |-> SumSeq(des, LAMBDA x : x.netAmount),
          monthlyAmounts |-> amounts,
          monthlyBudgets |->
            BuiltFcn([m \in DOMAIN amounts |->
                        generateMockBudget(amounts[m], draw[<<a, m>>])])])

\* the entries of a concept that carry account number a
EntriesOfAccount(conceptEntries, a) ==
  SelectSeq(conceptEntries, LAMBDA x : x.entry.CompteNum = a)

\* Object.values(conceptAccountDetails), after lines 298-331
AccountDetails(conceptEntries, draw) ==
  With(ObjectKeys(Built([i \in 1..Len(conceptEntries) |->
                           conceptEntries[i].entry.CompteNum])),
       LAMBDA keys :
         Built([i \in 1..Len(keys) |->
                  AccountDetail(keys[i], EntriesOfAccount(conceptEntries, keys[i]),
                                draw)]))

\* DetailContributions that generates a second budget for what it passes up
DetailContributionsRedrawn(detail, des) ==
  With(MonthsOf(des),
       LAMBDA months :
         Built([i \in 1..Len(months) |->
                  [month |-> months[i],
                   amount |-> detail.monthlyAmounts[months[i]],
                   budget |-> generateMockBudget(detail.monthlyAmounts[months[i]], 50)]]))

\* lines 322-346: what one account detail adds to the running series of its
\* concept, sub-category and category, in the order of Object.entries
DetailContributions(detail, des) ==
  With(MonthsOf(des),
       LAMBDA months :
         Built([i \in 1..Len(months) |->
                  [month |-> months[i],
                   amount |-> detail.monthlyAmounts[months[i]],
                   budget |-> detail.monthlyBudgets[months[i]]]]))

\* the contributions of the account details of a concept, in order
ConceptContributions(details, conceptEntries) ==
  LET f[i \in 0..Len(details)] ==
        IF i = 0 THEN <<>>
        ELSE f[i - 1] \o
             DetailContributions(details[i],
                                 EntriesOfAccount(conceptEntries, details[i].compteNum))
  IN  f[Len(details)]

\* the running series object[month] = (object[month] || 0) + value
AccumulateSeries(contribs, Value(_)) ==
  BuiltFcn([m \in {contribs[i].month : i \in 1..Len(contribs)} |->
              With(SelectSeq(contribs, LAMBDA c : c.month = m),
                   LAMBDA mine :
                     AccumulateKey(Built([i \in 1..Len(mine) |-> Value(mine[i])])))])

\* ContribAmount that reads the budget in place of the amount
ContribAmountFromBudget(c) == c.budget

ContribAmount(c) == c.amount

ContribBudget(c) == c.budget

\* stable sort by the comparator (a, b) => b.netAmount - a.netAmount
SortByNetAmountDesc(details) ==
  LET Insert(sorted, x) ==
        LET stay == {j \in 1..Len(sorted) : ~Gt(x.netAmount, sorted[j].netAmount)}
            k    == IF stay = {} THEN 0 ELSE CHOOSE j \in stay : \A i \in stay : i <= j
        IN  SubSeq(sorted, 1, k) \o <<x>> \o SubSeq(sorted, k + 1, Len(sorted))
      f[i \in 0..Len(details)] ==
        IF i = 0 THEN <<>> ELSE Insert(f[i - 1], details[i])
  IN  f[Len(details)]

\* ConceptTotal over the entries that have a month key only
ConceptTotalDated(conceptEntries) ==
  SumSeq(SelectSeq(conceptEntries, LAMBDA x : EntryMonth(x) # <<>>),
         LAMBDA x : x.netAmount)

\* const conceptTotal = _.sumBy(conceptEntries, "netAmount")
ConceptTotal(conceptEntries) == SumSeq(conceptEntries, LAMBDA x : x.netAmount)

\* FinalSeries that leaves every series as it was accumulated
FinalSeriesRaw(category, series) == series

\* isBalanceSheet ? calculateCumulativeAmounts(series) : series
FinalSeries(category, series) ==
  IF isBalanceSheetCategory(category) THEN calculateCumulativeAmounts(series)
  ELSE series

\* lines 355-367: the concept row, its monthly series still raw
ConceptRow(category, subCategory, concept, conceptEntries, details, contribs) ==
  [id |-> category \o "-" \o subCategory \o "-" \o concept,
   type |-> "concept",
   category |-> category,
   subCategory |-> subCategory,
   concept |-> concept,
   amount |-> ConceptTotal(conceptEntries),
   monthlyAmounts |-> AccumulateSeries(contribs, ContribAmount),
   monthlyBudgets |-> AccumulateSeries(contribs, ContribBudget),
   accountNumbers |-> Uniq(Built([i \in 1..Len(conceptEntries) |->
                                    conceptEntries[i].entry.CompteNum])),
   accountDetails |-> SortByNetAmountDesc(details),
   isCollapsed |-> TRUE,
   children |-> <<>>]

\* lines 287-368: the concept row and what the concept adds to the running
\* series of its parents
ConceptParts(category, subCategory, concept, conceptEntries, draw) ==
  With(AccountDetails(conceptEntries, draw),
       LAMBDA details :
         With(ConceptContributions(details, conceptEntries),
              LAMBDA contribs :
                [contribs |-> contribs,
                 row |-> ConceptRow(category, subCategory, concept,
                                    conceptEntries, details, contribs)]))

\* UpdatedConceptRow that leaves the budgets as they were accumulated
UpdatedConceptRowRawBudgets(conceptRow) ==
  [conceptRow EXCEPT
     !.monthlyAmounts = FinalSeries(conceptRow.category, @),
     !.accountDetails =
        Built([i \in 1..Len(@) |->
                 [@[i] EXCEPT
                    !.monthlyAmounts = FinalSeries(conceptRow.category, @)]])]

\* lines 388-405: the concept row with its series and its accounts' series
\* made cumulative for a balance-sheet category
UpdatedConceptRow(conceptRow) ==
  [conceptRow EXCEPT
     !.monthlyAmounts = FinalSeries(conceptRow.category, @),
     !.monthlyBudgets = FinalSeries(conceptRow.category, @),
     !.accountDetails =
        Built([i \in 1..Len(@) |->
                 [@[i] EXCEPT
                    !.monthlyAmounts = FinalSeries(conceptRow.category, @),
                    !.monthlyBudgets = FinalSeries(conceptRow.category, @)]])]

\* subCategoryTotal += conceptTotal, over the concepts in order
SubCategoryTotal(conceptRows) == SumSeq(conceptRows, LAMBDA r : r.amount)

\* _.uniq(_.flatMap(rows, "accountNumbers"))
FlatAccountNumbers(rows) ==
  LET f[i \in 0..Len(rows)] ==
        IF i = 0 THEN <<>> ELSE f[i - 1] \o rows[i].accountNumbers
  IN  Uniq(f[Len(rows)])

\* the contributions of a sequence of parts, in order
AllContributions(parts) ==
  LET f[i \in 0..Len(parts)] ==
        IF i = 0 THEN <<>> ELSE f[i - 1] \o parts[i].contribs
  IN  f[Len(parts)]

\* lines 407-418: the sub-category row
SubCategoryRow(category, subCategory, conceptRows, contribs) ==
  [id |-> category \o "-" \o subCategory,
   type |-> "subcategory",
   category |-> category,
   subCategory |-> subCategory,
   concept |-> "",
   amount |-> SubCategoryTotal(conceptRows),
   monthlyAmounts |->
     FinalSeries(category, AccumulateSeries(contribs, ContribAmount)),
   monthlyBudgets |->
     FinalSeries(category, AccumulateSeries(contribs, ContribBudget)),
   accountNumbers |-> FlatAccountNumbers(conceptRows),
   accountDetails |-> <<>>,
   isCollapsed |-> TRUE,
   children |-> Built([i \in 1..Len(conceptRows) |->
                         UpdatedConceptRow(conceptRows[i])])]

\* lines 278-419: the sub-category row and what the sub-category adds to the
\* running series of its category
SubCategoryParts(category, subCategory, subEntries, draw) ==
  With(GroupNames(subEntries, LAMBDA x : x.mapping.concept),
       LAMBDA concepts :
         With(Built([i \in 1..Len(concepts) |->
                       ConceptParts(category, subCategory, concepts[i],
                                    SelectSeq(subEntries,
                                              LAMBDA x : x.mapping.concept = concepts[i]),
                                    draw)]),
              LAMBDA cparts :
                With(AllContributions(cparts),
                     LAMBDA contribs :
                       [contribs |-> contribs,
                        row |-> SubCategoryRow(category, subCategory,
                                  Built([i \in 1..Len(cparts) |-> cparts[i].row]),
                                  contribs)])))

\* CategoryTotal that keeps only the last sub-category's total
CategoryTotalLast(subCategoryRows) == subCategoryRows[Len(subCategoryRows)].amount

\* categoryTotal += subCategoryTotal, over the sub-categories in order
CategoryTotal(subCategoryRows) == SumSeq(subCategoryRows, LAMBDA r : r.amount)

\* lines 342-343 and 426-432: the category's series, accumulated from the
\* raw account-month amounts beneath it and then made cumulative for a
\* balance-sheet category
CategorySeries(category, contribs, Value(_)) ==
  FinalSeries(category, AccumulateSeries(contribs, Value))

\* lines 435-445: the category row
CategoryRowOf(category, subCategoryRows, contribs) ==
  [id |-> category,
   type |-> "category",
   category |-> category,
   subCategory |-> "",
   concept |-> "",
   amount |-> CategoryTotal(subCategoryRows),
   monthlyAmounts |-> CategorySeries(category, contribs, ContribAmount),
   monthlyBudgets |-> CategorySeries(category, contribs, ContribBudget),
   accountNumbers |-> FlatAccountNumbers(subCategoryRows),
   accountDetails |-> <<>>,
   isCollapsed |-> FALSE,
   children |-> subCategoryRows]

\* lines 266-446: one iteration of the loop over the categories
CategoryRow(category, categoryEntries, draw) ==
  With(GroupNames(categoryEntries, LAMBDA x : x.mapping.sousCategorie),
       LAMBDA subs :
         With(Built([i \in 1..Len(subs) |->
                       SubCategoryParts(category, subs[i],
                                        SelectSeq(categoryEntries,
                                                  LAMBDA x : x.mapping.sousCategorie = subs[i]),
                                        draw)]),
              LAMBDA sparts :
                CategoryRowOf(category,
                              Built([i \in 1..Len(sparts) |-> sparts[i].row]),
                              AllContributions(sparts))))

\* the category names of the model in the order of String.localeCompare
CollationOrder ==
  <<"Current Assets", "Operating Expenses (OPEX)", "Revenue">>

CollationRank(name) == CHOOSE i \in 1..Len(CollationOrder) : CollationOrder[i] = name

\* SortByCategory that leaves the rows in the order of their insertion
SortByCategoryInserted(rows) == rows

\* result.sort((a, b) => a.category.localeCompare(b.category)), stable
SortByCategory(rows) ==
  LET Insert(sorted, x) ==
        LET stay == {j \in 1..Len(sorted) :
                       CollationRank(sorted[j].category) <= CollationRank(x.category)}
            k    == IF stay = {} THEN 0 ELSE CHOOSE j \in stay : \A i \in stay : i <= j
        IN  SubSeq(sorted, 1, k) \o <<x>> \o SubSeq(sorted, k + 1, Len(sorted))
      f[i \in 0..Len(rows)] ==
        IF i = 0 THEN <<>> ELSE Insert(f[i - 1], rows[i])
  IN  f[Len(rows)]

\* the (account, month) pairs for which generateMockBudget is called
BudgetPairs(es, cm) ==
  With(MappedEntries(es, cm),
       LAMBDA ms :
         {<<ms[i].entry.CompteNum, EntryMonth(ms[i])>> :
            i \in {j \in 1..Len(ms) : EntryMonth(ms[j]) # <<>>}})

\* lines 262-449: the rows of the mapped entries, sorted by category
RowsOf(mappedEntries, draw) ==
  With(GroupNames(mappedEntries, LAMBDA x : x.mapping.grandeCategorie),
       LAMBDA categories :
         SortByCategory(
           Built([i \in 1..Len(categories) |->
                    CategoryRow(categories[i],
                                SelectSeq(mappedEntries,
                                          LAMBDA x : x.mapping.grandeCategorie = categories[i]),
                                draw)])))

\* processRawFEC(entries, customMappings), draw[<<account, month>>] being
\* 100 * Math.random() of the call of generateMockBudget for that pair
processRawFEC(es, cm, draw) ==
  IF Len(es) = 0 THEN <<>>
  ELSE With(MappedEntries(es, cm),
            LAMBDA mappedEntries :
              IF Len(mappedEntries) = 0 THEN <<>>
              ELSE RowsOf(mappedEntries, draw))

---------------------------------------------------------------------------
(* getUnmappedEntries *)

\* the two static steps: fallback on the trimmed number, then the exact
\* table on the normalized number
\* StaticMapping without the last try on the normalized number
StaticMappingFallbackOnly(originalCompteNum) ==
  getMappingWithFallback(originalCompteNum)

StaticMapping(originalCompteNum) ==
  LET mapping == getMappingWithFallback(originalCompteNum)
  IN  IF mapping # Null THEN mapping
      ELSE getMappingForAccount(normalizeAccountNumber(originalCompteNum))

\* AggregationKey that keeps the number as it was written
AggregationKeyRaw(originalCompteNum) == originalCompteNum

\* normalizedCompteNum || originalCompteNum
AggregationKey(originalCompteNum) ==
  LET normalizedCompteNum == normalizeAccountNumber(originalCompteNum)
  IN  IF normalizedCompteNum # <<>> THEN normalizedCompteNum ELSE originalCompteNum

\* the record of one key of the Map: totals over the entries aggregated
\* under it, the label of the first
AccountTotals(key, es) ==
  [compteNum |-> key,
   compteLib |-> es[1].CompteLib,
   totalDebit |-> SumSeq(es, EntryDebit),
   totalCredit |-> SumSeq(es, EntryCredit),
   count |-> Len(es),
   netAmount |-> Sub(SumSeq(es, EntryDebit), SumSeq(es, EntryCredit))]

\* stable sort by (a, b) => Math.abs(b.netAmount) - Math.abs(a.netAmount)
SortByAbsNetDesc(items) ==
  LET Insert(sorted, x) ==
        LET stay == {j \in 1..Len(sorted) :
                       ~Gt(Abs(x.netAmount), Abs(sorted[j].netAmount))}
            k    == IF stay = {} THEN 0 ELSE CHOOSE j \in stay : \A i \in stay : i <= j
        IN  SubSeq(sorted, 1, k) \o <<x>> \o SubSeq(sorted, k + 1, Len(sorted))
      f[i \in 0..Len(items)] ==
        IF i = 0 THEN <<>> ELSE Insert(f[i - 1], items[i])
  IN  f[Len(items)]

getUnmappedEntries(es) ==
  With(SelectSeq(es, LAMBDA e : StaticMapping(Trim(e.CompteNum)) = Null),
       LAMBDA unmapped :
         With(Uniq(Built([i \in 1..Len(unmapped) |->
                            AggregationKey(Trim(unmapped[i].CompteNum))])),
              LAMBDA keys :
                SortByAbsNetDesc(
                  Built([i \in 1..Len(keys) |->
                           AccountTotals(keys[i],
                             SelectSeq(unmapped,
                               LAMBDA e : AggregationKey(Trim(e.CompteNum)) = keys[i]))]))))

---------------------------------------------------------------------------
(* getAllAccounts *)

\* the mapping kept with an account: concept and categories of the static
\* resolution, undefined without one
KeptMapping(mapping) ==
  IF mapping = Null THEN Null
  ELSE [concept |-> mapping.concept,
        grandeCategorie |-> mapping.grandeCategorie,
        sousCategorie |-> mapping.sousCategorie]

\* the record of one key of the Map: totals over the entries aggregated
\* under it, the label and the mapping of the first
AccountSummary(key, es) ==
  [compteNum |-> key,
   compteLib |-> es[1].CompteLib,
   totalDebit |-> SumSeq(es, EntryDebit),
   totalCredit |-> SumSeq(es, EntryCredit),
   count |-> Len(es),
   mapping |-> KeptMapping(StaticMapping(Trim(es[1].CompteNum))),
   netAmount |-> Sub(SumSeq(es, EntryDebit), SumSeq(es, EntryCredit)),
   isMapped |-> StaticMapping(Trim(es[1].CompteNum)) # Null]

\* a.compteNum.localeCompare(b.compteNum) <= 0, for numbers made of digits
\* and spaces
CompteNumLeq(a, b) == a = b \/ LexLess(a, b)

\* stable sort by (a, b) => a.compteNum.localeCompare(b.compteNum)
SortByCompteNum(items) ==
  LET Insert(sorted, x) ==
        LET stay == {j \in 1..Len(sorted) : CompteNumLeq(sorted[j].compteNum, x.compteNum)}
            k    == IF stay = {} THEN 0 ELSE CHOOSE j \in stay : \A i \in stay : i <= j
        IN  SubSeq(sorted, 1, k) \o <<x>> \o SubSeq(sorted, k + 1, Len(sorted))
      f[i \in 0..Len(items)] ==
        IF i = 0 THEN <<>> ELSE Insert(f[i - 1], items[i])
  IN  f[Len(items)]

getAllAccounts(es) ==
  With(Uniq(Built([i \in 1..Len(es) |-> AggregationKey(Trim(es[i].CompteNum))])),
       LAMBDA keys :
         SortByCompteNum(
           Built([i \in 1..Len(keys) |->
                    AccountSummary(keys[i],
                      SelectSeq(es,
                        LAMBDA e : AggregationKey(Trim(e.CompteNum)) = keys[i]))])))

---------------------------------------------------------------------------
(* Inputs *)

SeqsUpTo(S, n) == UNION {[1..k -> S] : k \in 0..n}

Date20250115 == <<"2", "0", "2", "5", "0", "1", "1", "5">>

\* 20250220 after a space
DatePadded20250220 == <<" ", "2", "0", "2", "5", "0", "2", "2", "0">>

\* six characters, five of them once trimmed
DateShort == <<"2", "0", "2", "5", "0", " ">>

\* journal lines that differ in their entry id and in the form and value of
\* their amounts: 0.01 as a number, "0,02", absent, "abc" against 0 and 0.01
\* as numbers, "0,005", absent
BalanceDebits ==
  { NumField(10), StrField(<<"0", ",", "0", "2">>), Undefined,
    StrField(<<"a", "b", "c">>) }

BalanceCredits ==
  { NumField(0), NumField(10), StrField(<<"0", ",", "0", "0", "5">>), Undefined }

BalanceEntryDomain ==
  { [EcritureNum |-> id, EcritureDate |-> Date20250115,
     CompteNum |-> Acc613520030, CompteLib |-> "Software",
     Debit |-> d, Credit |-> c] :
      id \in {<<"1">>, <<"2">>}, d \in BalanceDebits, c \in BalanceCredits }

NoMappings == <<>>

\* a ledger line with numeric amounts, in thousandths
TreeEntry(compteNum, compteLib, ecritureDate, debit, credit) ==
  [EcritureNum |-> <<"1">>, EcritureDate |-> ecritureDate,
   CompteNum |-> compteNum, CompteLib |-> compteLib,
   Debit |-> NumField(debit), Credit |-> NumField(credit)]

\* ledger lines that differ in their account (mapped by a prefix rule where
\* the exact table has another answer, mapped by the fallback's exact step,
\* unmapped, mapped only once normalized) and in their date and amounts
\* (+100.00 in 2025-01, 70.00 - 20.00 in 2025-02 at a date that starts with
\* a space, -30.00 at a date too short for a month once trimmed)
TreeEntryDomain ==
  { TreeEntry(Acc411, "Customers", Date20250115, 100000, 0),
    TreeEntry(Acc411, "Customers", DatePadded20250220, 70000, 20000),
    TreeEntry(Acc411, "Customers", DateShort, 0, 30000),
    TreeEntry(Acc512000000, "Bank", DatePadded20250220, 70000, 20000),
    TreeEntry(Acc999, "Suspense", Date20250115, 100000, 0),
    TreeEntry(Acc61352003, "Software", Date20250115, 100000, 0) }

MappingToCash ==
  [concept |-> "Petty Cash", grandeCategorie |-> "Current Assets", sousCategorie |-> "Cash"]

MappingToRevenue ==
  [concept |-> "Sales", grandeCategorie |-> "Revenue",
   sousCategorie |-> "Product Revenue"]

\* session override maps: none, one for the unmapped account, one that
\* re-classifies an account that the static table maps, both
CustomMappingChoices ==
  { NoMappings,
    [k \in {Acc999000000} |-> MappingToCash],
    [k \in {Acc411000000} |-> MappingToRevenue],
    [k \in {Acc999000000, Acc411000000} |->
       IF k = Acc999000000 THEN MappingToCash ELSE MappingToRevenue] }

\* 100 * Math.random() of one call of generateMockBudget
RandomDraws == {0, 99}

---------------------------------------------------------------------------
(* State machine: the core operations applied to one input, in the order   *)
(* in which handleFileProcessed calls them.  Each result variable holds    *)
(* what the operation returned (unmappedEntries is the list before the     *)
(* page removes the accounts mapped in the session).  Spec feeds the       *)
(* operations with entries whose amounts are numbers, as FileUploader      *)
(* builds them; SpecBalance feeds validateEcritures and                    *)
(* calculateGlobalBalance with every form of amount that they accept: a    *)
(* number, a string, an absent field.                                      *)

InitResults ==
  /\ pc = "start"
  /\ validationResult = Null
  /\ globalBalance = Null
  /\ unmappedEntries = <<>>
  /\ operatingModel = <<>>
  /\ allAccounts = <<>>
  /\ call = Null
  /\ returned = Null
  /\ unmappedAccounts = <<>>
  /\ isProcessing = FALSE
  /\ error = Null

InitBalance ==
  /\ entries \in SeqsUpTo(BalanceEntryDomain, MaxLines)
  /\ customMappings = NoMappings
  /\ InitResults

ValidateEcritures ==
  /\ pc = "start"
  /\ validationResult' = validateEcritures(entries)
  /\ pc' = "validated"
  /\ UNCHANGED <<unmappedAccounts, isProcessing, error,
                 entries, customMappings, globalBalance, unmappedEntries,
                 operatingModel, allAccounts, call, returned>>

CalculateGlobalBalance ==
  /\ pc = "validated"
  /\ globalBalance' = calculateGlobalBalance(entries)
  /\ pc' = "balanced"
  /\ UNCHANGED <<unmappedAccounts, isProcessing, error,
                 entries, customMappings, validationResult, unmappedEntries,
                 operatingModel, allAccounts, call, returned>>

Init ==
  /\ entries \in SeqsUpTo(TreeEntryDomain, MaxEntries)
  /\ customMappings \in CustomMappingChoices
  /\ InitResults

GetUnmappedEntries ==
  /\ pc = "balanced"
  /\ unmappedEntries' = getUnmappedEntries(entries)
  /\ pc' = "unmapped"
  /\ UNCHANGED <<unmappedAccounts, isProcessing, error,
                 entries, customMappings, validationResult, globalBalance,
                 operatingModel, allAccounts, call, returned>>

GetAllAccounts ==
  /\ pc = "unmapped"
  /\ allAccounts' = getAllAccounts(entries)
  /\ pc' = "accounts"
  /\ UNCHANGED <<unmappedAccounts, isProcessing, error,
                 entries, customMappings, validationResult, globalBalance,
                 unmappedEntries, operatingModel, call, returned>>

\* call.random keeps what Math.random() returned during the call
ProcessRawFEC ==
  /\ pc = "accounts"
  /\ \E draw \in [BudgetPairs(entries, customMappings) -> RandomDraws] :
       /\ call' = [fn |-> "processRawFEC", random |-> draw]
       /\ operatingModel' = processRawFEC(entries, customMappings, draw)
  /\ pc' = "processed"
  /\ UNCHANGED <<unmappedAccounts, isProcessing, error,
                 entries, customMappings, validationResult, globalBalance,
                 unmappedEntries, allAccounts, returned>>

Next ==
  \/ ValidateEcritures
  \/ CalculateGlobalBalance
  \/ GetUnmappedEntries
  \/ GetAllAccounts
  \/ ProcessRawFEC

Spec == Init /\ [][Next]_vars

NextBalance == ValidateEcritures \/ CalculateGlobalBalance

SpecBalance == InitBalance /\ [][NextBalance]_vars

---------------------------------------------------------------------------
(* Properties of validateEcritures and calculateGlobalBalance              *)

\* sum of F(i) over a set of indices, independent of the order of the lines
SumOver(I, F(_)) ==
  LET f[T \in SUBSET I] ==
        IF T = {} THEN Num(0)
        ELSE LET i == CHOOSE x \in T : TRUE IN Add(f[T \ {i}], F(i))
  IN  f[I]

EcritureNums == {entries[i].EcritureNum : i \in 1..Len(entries)}

GroupIndices(k) == {i \in 1..Len(entries) : entries[i].EcritureNum = k}

GroupDebit(k) == SumOver(GroupIndices(k), LAMBDA i : EntryDebit(entries[i]))

GroupCredit(k) == SumOver(GroupIndices(k), LAMBDA i : EntryCredit(entries[i]))

GroupDifference(k) == Abs(Sub(GroupDebit(k), GroupCredit(k)))

ListedTimes(k) ==
  Cardinality({j \in 1..Len(validationResult.unbalancedEcritures) :
                 validationResult.unbalancedEcritures[j].ecritureNum = k})

\* C8: validateEcritures groups the lines by EcritureNum and lists a group
\* exactly when |sum of debit - sum of credit| over the group is strictly
\* greater than 0.01 (10 thousandths); each unbalanced group is listed once
\* with its id, its totals and its absolute difference, nothing else is
\* listed, and isValid is true exactly when the list is empty.
C8_UnbalancedIffAboveTolerance ==
  pc # "start" =>
    LET rows == validationResult.unbalancedEcritures
    IN  /\ \A k \in EcritureNums :
             ListedTimes(k) = IF Gt(GroupDifference(k), Num(10)) THEN 1 ELSE 0
        /\ \A j \in 1..Len(rows) :
             /\ rows[j].ecritureNum \in EcritureNums
             /\ rows[j].totalDebit = GroupDebit(rows[j].ecritureNum)
             /\ rows[j].totalCredit = GroupCredit(rows[j].ecritureNum)
             /\ rows[j].difference = GroupDifference(rows[j].ecritureNum)
        /\ validationResult.isValid <=> (Len(rows) = 0)

\* a file with one group off by exactly 0.01, not listed, and one group off
\* by 0.02, listed
C8_Witness ==
  /\ pc # "start"
  /\ \E k \in EcritureNums : GroupDifference(k) = Num(10) /\ ListedTimes(k) = 0
  /\ \E k \in EcritureNums : GroupDifference(k) = Num(20) /\ ListedTimes(k) = 1

AllParse ==
  \A i \in 1..Len(entries) : ~EntryDebit(entries[i]).nan /\ ~EntryCredit(entries[i]).nan

\* C9: for entries that all share one journal-entry id (and whose amounts
\* all parse), calculateGlobalBalance(entries).isBalanced equals
\* validateEcritures(entries).isValid, also at a difference of exactly 0.01.
C9_SameToleranceAsValidate ==
  (pc = "balanced" /\ Cardinality(EcritureNums) <= 1 /\ AllParse)
    => (globalBalance.isBalanced = validationResult.isValid)

\* an entry with every debit or credit that is absent or does not parse
\* replaced by the number 0
AsIfZero(e) ==
  [e EXCEPT !.Debit = IF EntryDebit(e).nan \/ e.Debit.kind = "undefined"
                      THEN NumField(0) ELSE @,
            !.Credit = IF EntryCredit(e).nan \/ e.Credit.kind = "undefined"
                       THEN NumField(0) ELSE @]

EntriesAsIfZero == [i \in 1..Len(entries) |-> AsIfZero(entries[i])]

\* C10: an absent or unparseable debit or credit contributes exactly 0: the
\* totals and verdicts of validateEcritures and calculateGlobalBalance are
\* those of the same entries with that field set to 0.
C10_UnparseableCountsAsZero ==
  pc = "balanced" =>
    /\ validationResult = validateEcritures(EntriesAsIfZero)
    /\ globalBalance = calculateGlobalBalance(EntriesAsIfZero)

---------------------------------------------------------------------------
(* Properties of processRawFEC and getUnmappedEntries                      *)

Elems(seq) == {seq[i] : i \in 1..Len(seq)}

CategoryRows == Elems(operatingModel)

SubCategoryRows == UNION {Elems(c.children) : c \in CategoryRows}

ConceptRows == UNION {Elems(s.children) : s \in SubCategoryRows}

TreeRows == CategoryRows \cup SubCategoryRows \cup ConceptRows

\* sum of the amount of the rows of a sequence, whatever their order
SumOfAmounts(rows) == SumOver(1..Len(rows), LAMBDA i : rows[i].amount)

\* C1: in every tree returned by processRawFEC, the amount of each category
\* row is the sum of the amounts of its sub-category rows, and the amount of
\* each sub-category row is the sum of the amounts of its concept rows.
C1_TreeSum ==
  pc = "processed" =>
    /\ \A c \in CategoryRows : c.amount = SumOfAmounts(c.children)
    /\ \A s \in SubCategoryRows : s.amount = SumOfAmounts(s.children)

\* a tree with a category of two sub-categories, one of them of two
\* concepts, every amount non-zero
C1_Witness ==
  /\ pc = "processed"
  /\ \E c \in CategoryRows :
       /\ Len(c.children) = 2
       /\ \A s \in Elems(c.children) : s.amount # Num(0)
  /\ \E s \in SubCategoryRows :
       /\ Len(s.children) = 2
       /\ \A k \in Elems(s.children) : k.amount # Num(0)

\* the classification the tree gives to the entry of index i: none, or the
\* category, sub-category and concept of its mapping
Classification(i) ==
  LET mapping == ResolveMapping(entries[i], customMappings)
  IN  IF mapping = Null THEN <<>>
      ELSE <<mapping.grandeCategorie, mapping.sousCategorie, mapping.concept>>

\* the indices of the mapped entries classified under a row
IndicesUnder(row) ==
  {i \in 1..Len(entries) :
     /\ Classification(i) # <<>>
     /\ Classification(i)[1] = row.category
     /\ row.type \in {"subcategory", "concept"} => Classification(i)[2] = row.subCategory
     /\ row.type = "concept" => Classification(i)[3] = row.concept}

\* debit - credit of the entry of index i
DebitMinusCredit(i) == Sub(EntryDebit(entries[i]), EntryCredit(entries[i]))

\* C2: the amount of every row is the sum of debit - credit over exactly the
\* mapped entries classified under it, and the netAmount of every account
\* detail that sum over the concept's entries of that account, entries
\* without a month key included; the category amounts add up to the sum over
\* all mapped entries, and every mapped entry has its rows.
C2_AmountIsNetOfEntries ==
  pc = "processed" =>
    /\ \A r \in TreeRows : r.amount = SumOver(IndicesUnder(r), DebitMinusCredit)
    /\ \A r \in ConceptRows : \A d \in Elems(r.accountDetails) :
         d.netAmount =
           SumOver({i \in IndicesUnder(r) : entries[i].CompteNum = d.compteNum},
                   DebitMinusCredit)
    /\ SumOfAmounts(operatingModel) =
         SumOver({i \in 1..Len(entries) : Classification(i) # <<>>}, DebitMinusCredit)
    /\ \A i \in 1..Len(entries) :
         Classification(i) # <<>> =>
           \E r \in ConceptRows :
             /\ i \in IndicesUnder(r)
             /\ \E d \in Elems(r.accountDetails) : d.compteNum = entries[i].CompteNum

\* a concept of two mapped entries of one account, one of them at a date
\* that yields no month key, the two of them in the amounts
C2_Witness ==
  /\ pc = "processed"
  /\ \E r \in ConceptRows : \E i, j \in IndicesUnder(r) :
       /\ i # j
       /\ extractMonthKey(entries[i].EcritureDate) = <<>>
       /\ extractMonthKey(entries[j].EcritureDate) # <<>>
       /\ entries[i].CompteNum = entries[j].CompteNum
       /\ r.amount = Add(DebitMinusCredit(i), DebitMinusCredit(j))
       /\ r.amount # DebitMinusCredit(j)

StockCategories ==
  {"Current Assets", "Current Liabilities", "Equity & Long-term Funding",
   "Non-Current Assets"}

\* the month key of the entry of index i, <<>> when its date yields none
MonthOfIndex(i) == extractMonthKey(entries[i].EcritureDate)

\* the month keys of the entries of a set of indices
MonthKeys(I) == {MonthOfIndex(i) : i \in I} \ {<<>>}

\* the net movement within month m of the entries of a set of indices
Movement(I, m) == SumOver({i \in I : MonthOfIndex(i) = m}, DebitMinusCredit)

\* the running sum of the movements of the months up to m
Balance(I, m) ==
  SumOver({k \in MonthKeys(I) : k = m \/ LexLess(k, m)}, LAMBDA k : Movement(I, k))

\* the series that flow and stock semantics give to a node of a category
\* over the entries I
ExpectedSeries(category, I) ==
  [m \in MonthKeys(I) |->
     IF category \in StockCategories THEN Balance(I, m) ELSE Movement(I, m)]

\* C3: for every row of the tree and every account detail, monthlyAmounts[m]
\* is, in a stock category, the running sum up to m over the node's own
\* month keys in ascending order of the node's own monthly movements, and in
\* any other category the net movement of the node's entries within month m.
C3_FlowVersusStock ==
  pc = "processed" =>
    /\ \A r \in TreeRows :
         r.monthlyAmounts = ExpectedSeries(r.category, IndicesUnder(r))
    /\ \A r \in ConceptRows : \A d \in Elems(r.accountDetails) :
         d.monthlyAmounts =
           ExpectedSeries(r.category,
                          {i \in IndicesUnder(r) : entries[i].CompteNum = d.compteNum})

Month202501 == <<"2", "0", "2", "5", "-", "0", "1">>

Month202502 == <<"2", "0", "2", "5", "-", "0", "2">>

\* +100 in 2025-01 and +50 in 2025-02 read 100 and 150 at every level under
\* Current Assets, the account detail included
C3_Witness ==
  /\ pc = "processed"
  /\ \E c \in CategoryRows :
       /\ c.category = "Current Assets"
       /\ \A r \in {c} \cup Elems(c.children)
                   \cup UNION {Elems(x.children) : x \in Elems(c.children)} :
            /\ r.monthlyAmounts = (Month202501 :> Num(100000) @@ Month202502 :> Num(150000))
            /\ r.type = "concept" =>
                 \A d \in Elems(r.accountDetails) : d.monthlyAmounts = r.monthlyAmounts

\* the value of a series at month m, 0 where it has no key m
ValueAt(series, m) == IF m \in DOMAIN series THEN series[m] ELSE Num(0)

\* the sum over the rows of a sequence of their series' value at month m
SumOfSeriesAt(rows, Series(_), m) ==
  SumOver(1..Len(rows), LAMBDA i : ValueAt(Series(rows[i]), m))

\* C4: for every category row and every month key m, monthlyAmounts[m] and
\* monthlyBudgets[m] of the category are the sums over its sub-category rows
\* of their final monthlyAmounts[m] and monthlyBudgets[m], a sub-category
\* without key m counting for 0, in a stock category as well.
C4_CategorySeriesSumsSubCategories ==
  pc = "processed" =>
    \A c \in CategoryRows :
      /\ \A m \in DOMAIN c.monthlyAmounts :
           c.monthlyAmounts[m] =
             SumOfSeriesAt(c.children, LAMBDA r : r.monthlyAmounts, m)
      /\ \A m \in DOMAIN c.monthlyBudgets :
           c.monthlyBudgets[m] =
             SumOfSeriesAt(c.children, LAMBDA r : r.monthlyBudgets, m)

\* the normalized account number of the entry of index i
NormalizedOf(i) == normalizeAccountNumber(entries[i].CompteNum)

\* the category, sub-category and concept of a mapping
Triple(mapping) ==
  <<mapping.grandeCategorie, mapping.sousCategorie, mapping.concept>>

\* where the tree holds an account number: the concept rows that list it in
\* accountNumbers, and those that hold an account detail of it
PlacesOf(a) ==
  {<<r.category, r.subCategory, r.concept>> :
     r \in {x \in ConceptRows : a \in Elems(x.accountNumbers)}}

DetailPlacesOf(a) ==
  {<<r.category, r.subCategory, r.concept>> :
     r \in {x \in ConceptRows : \E d \in Elems(x.accountDetails) : d.compteNum = a}}

\* no override for the normalized number, no fallback hit on the raw number,
\* no exact hit on the normalized number
Unresolvable(i) ==
  /\ NormalizedOf(i) \notin DOMAIN customMappings
  /\ getMappingWithFallback(entries[i].CompteNum) = Null
  /\ getMappingForAccount(NormalizedOf(i)) = Null

\* the entries that getUnmappedEntries aggregates with the entry of index i
SameUnmappedAccount(i) ==
  {j \in 1..Len(entries) :
     /\ NormalizedOf(j) = NormalizedOf(i)
     /\ getMappingWithFallback(entries[j].CompteNum) = Null
     /\ getMappingForAccount(NormalizedOf(j)) = Null}

C6_OverridePrecedence ==
  pc = "processed" =>
    \A i \in 1..Len(entries) :
      NormalizedOf(i) \in DOMAIN customMappings =>
        /\ PlacesOf(entries[i].CompteNum) = {Triple(customMappings[NormalizedOf(i)])}
        /\ DetailPlacesOf(entries[i].CompteNum) = {Triple(customMappings[NormalizedOf(i)])}

\* an override for an account that the static table maps elsewhere, in one
\* way by the fallback on the raw number and in another by the exact table
\* on the normalized number: the account is under the override's concept only
C6_Witness ==
  /\ pc = "processed"
  /\ \E i \in 1..Len(entries) :
       /\ NormalizedOf(i) \in DOMAIN customMappings
       /\ getMappingWithFallback(entries[i].CompteNum) # Null
       /\ getMappingForAccount(NormalizedOf(i)) # Null
       /\ Triple(customMappings[NormalizedOf(i)])
            \notin {Triple(getMappingWithFallback(entries[i].CompteNum)),
                    Triple(getMappingForAccount(NormalizedOf(i)))}
       /\ PlacesOf(entries[i].CompteNum) = {Triple(customMappings[NormalizedOf(i)])}
       /\ DetailPlacesOf(entries[i].CompteNum) = {Triple(customMappings[NormalizedOf(i)])}

\* the places the resolution order gives to the entry of index i: the
\* override for the normalized number, else the fallback on the raw number,
\* else the exact table on the normalized number, else none
ExpectedPlaces(i) ==
  IF NormalizedOf(i) \in DOMAIN customMappings
    THEN {Triple(customMappings[NormalizedOf(i)])}
  ELSE IF getMappingWithFallback(entries[i].CompteNum) # Null
    THEN {Triple(getMappingWithFallback(entries[i].CompteNum))}
  ELSE IF getMappingForAccount(NormalizedOf(i)) # Null
    THEN {Triple(getMappingForAccount(NormalizedOf(i)))}
  ELSE {}

\* C7: the mapping used for an entry is the first hit of: the override for
\* its normalized number, the fallback lookup on its raw number, the exact
\* lookup on its normalized number; the entry is dropped from the tree if
\* and only if all three fail, and an account that nothing resolves leaves
\* processRawFEC returning the tree of the other entries.
C7_ResolutionOrder ==
  pc = "processed" =>
    \A i \in 1..Len(entries) :
      /\ PlacesOf(entries[i].CompteNum) = ExpectedPlaces(i)
      /\ DetailPlacesOf(entries[i].CompteNum) = ExpectedPlaces(i)
      /\ PlacesOf(entries[i].CompteNum) = {} <=> Unresolvable(i)

\* no override; one entry resolved by the fallback on its raw number where
\* the exact table has another answer for its normalized number, one resolved
\* by the exact table once normalized, one that nothing resolves
C7_Witness ==
  /\ pc = "processed"
  /\ \E i, j, k \in 1..Len(entries) :
       /\ NormalizedOf(i) \notin DOMAIN customMappings
       /\ getMappingWithFallback(entries[i].CompteNum) # Null
       /\ getMappingForAccount(NormalizedOf(i)) # Null
       /\ Triple(getMappingForAccount(NormalizedOf(i)))
            # Triple(getMappingWithFallback(entries[i].CompteNum))
       /\ PlacesOf(entries[i].CompteNum)
            = {Triple(getMappingWithFallback(entries[i].CompteNum))}
       /\ NormalizedOf(j) \notin DOMAIN customMappings
       /\ getMappingWithFallback(entries[j].CompteNum) = Null
       /\ getMappingForAccount(NormalizedOf(j)) # Null
       /\ PlacesOf(entries[j].CompteNum) = {Triple(getMappingForAccount(NormalizedOf(j)))}
       /\ Unresolvable(k)
       /\ PlacesOf(entries[k].CompteNum) = {}

\* C11: processRawFEC returns the empty list when the entry list is empty
\* and when no entry resolves to a mapping.
C11_EmptyOutput ==
  pc = "processed" =>
    ((\A i \in 1..Len(entries) : Unresolvable(i)) => operatingModel = <<>>)

\* entries that nothing resolves, processed into the empty list
C11_Witness ==
  /\ pc = "processed"
  /\ Len(entries) >= 2
  /\ \A i \in 1..Len(entries) : Unresolvable(i)
  /\ operatingModel = <<>>

\* a series with every value replaced by 0: its month keys
KeysOnly(series) == [m \in DOMAIN series |-> 0]

\* a row with the values of monthlyBudgets set aside, at every level
RECURSIVE ExceptBudgetValues(_)
ExceptBudgetValues(row) ==
  [row EXCEPT
     !.monthlyBudgets = KeysOnly(@),
     !.accountDetails = [i \in 1..Len(@) |-> [@[i] EXCEPT !.monthlyBudgets = KeysOnly(@)]],
     !.children = [i \in 1..Len(@) |-> ExceptBudgetValues(@[i])]]

TreeExceptBudgetValues(tree) == [i \in 1..Len(tree) |-> ExceptBudgetValues(tree[i])]

\* C12: another call of processRawFEC with the same entries and the same
\* overrides, whatever Math.random() returns during it, gives a tree equal
\* to the first in every field (ids, order of rows and children, amounts,
\* monthlyAmounts, accountNumbers, account details, isCollapsed, month keys
\* of monthlyBudgets) except the values of monthlyBudgets.
C12_SameTreeExceptBudgets ==
  pc = "processed" =>
    \A draw \in [BudgetPairs(entries, customMappings) -> RandomDraws] :
      TreeExceptBudgetValues(processRawFEC(entries, customMappings, draw))
        = TreeExceptBudgetValues(operatingModel)

\* a tree of two categories that another call returns with other budgets
C12_Witness ==
  /\ pc = "processed"
  /\ Len(operatingModel) >= 2
  /\ \E draw \in [BudgetPairs(entries, customMappings) -> RandomDraws] :
       processRawFEC(entries, customMappings, draw) # operatingModel

(***************************************************************************)
(* normalizeAccountNumber on its own: every string of a digit and a blank  *)
(* up to MaxChars characters is normalized, and the result normalized      *)
(* again.                                                                  *)
(***************************************************************************)

MaxChars == 10

NormalizeChars == {"4", " "}

InitNormalize ==
  /\ entries = <<>>
  /\ customMappings = NoMappings
  /\ validationResult = Null
  /\ globalBalance = Null
  /\ unmappedEntries = <<>>
  /\ operatingModel = <<>>
  /\ allAccounts = <<>>
  /\ pc = "call"
  /\ call \in {[fn |-> "normalizeAccountNumber", compteNum |-> s] :
                 s \in SeqsUpTo(NormalizeChars, MaxChars)}
  /\ returned = Null
  /\ unmappedAccounts = <<>>
  /\ isProcessing = FALSE
  /\ error = Null

NormalizeAccountNumber ==
  /\ pc = "call"
  /\ call.fn = "normalizeAccountNumber"
  /\ returned' = normalizeAccountNumber(call.compteNum)
  /\ pc' = "return"
  /\ UNCHANGED <<unmappedAccounts, isProcessing, error,
                 entries, customMappings, validationResult, globalBalance,
                 unmappedEntries, operatingModel, allAccounts, call>>

\* the value returned is normalized once more
NormalizeReturned ==
  /\ pc = "return"
  /\ call.fn = "normalizeAccountNumber"
  /\ call' = [call EXCEPT !.compteNum = returned]
  /\ returned' = normalizeAccountNumber(returned)
  /\ pc' = "again"
  /\ UNCHANGED <<unmappedAccounts, isProcessing, error,
                 entries, customMappings, validationResult, globalBalance,
                 unmappedEntries, operatingModel, allAccounts>>

NextNormalize ==
  \/ NormalizeAccountNumber
  \/ NormalizeReturned

SpecNormalize == InitNormalize /\ [][NextNormalize]_vars

IsBlank(s) == \A i \in 1..Len(s) : s[i] = " "

\* the characters of s from its first to its last non-blank one
Core(s) ==
  LET lo == CHOOSE i \in 1..Len(s) : s[i] # " " /\ \A j \in 1..(i - 1) : s[j] = " "
      hi == CHOOSE i \in 1..Len(s) : s[i] # " " /\ \A j \in (i + 1)..Len(s) : s[j] = " "
  IN  [i \in 1..(hi - lo + 1) |-> s[lo + i - 1]]

\* C13: normalization is idempotent, and for a string s of at most 9
\* characters normalize(s) has length 9 unless s is empty or holds blanks
\* only, in which case it is the empty string; no character between the
\* first and the last non-blank one is ever dropped, so a number of more
\* than 9 characters comes back whole.
C13_NormalizationCanonical ==
  /\ (pc = "return" /\ call.fn = "normalizeAccountNumber") =>
       LET s == call.compteNum
       IN  IF IsBlank(s) THEN returned = <<>>
           ELSE /\ Len(s) <= NormLen => Len(returned) = NormLen
                /\ Len(returned) >= Len(Core(s))
                /\ SubSeq(returned, 1, Len(Core(s))) = Core(s)
                /\ \A i \in (Len(Core(s)) + 1)..Len(returned) : returned[i] = "0"
                /\ Len(Core(s)) >= NormLen => returned = Core(s)
  /\ (pc = "again" /\ call.fn = "normalizeAccountNumber") => returned = call.compteNum

\* a number between blanks, trimmed and padded to nine characters
C13_Witness ==
  /\ pc = "return"
  /\ call = [fn |-> "normalizeAccountNumber",
             compteNum |-> <<" ", "4", " ", "4", " ">>]
  /\ returned = <<"4", " ", "4", "0", "0", "0", "0", "0", "0">>

\* C13 as stated: every non-empty string of at most 9 characters is
\* normalized to 9 characters.
C13_LengthNineUnlessEmpty ==
  (pc = "return" /\ call.fn = "normalizeAccountNumber") =>
    (Len(call.compteNum) <= NormLen /\ call.compteNum # <<>>
       => Len(returned) = NormLen)

(***************************************************************************)
(* generateMockBudget on its own: amounts on both sides of zero and of the *)
(* two thresholds, and Math.random() = random / 100 for every random.      *)
(***************************************************************************)

\* actual amounts, in thousandths
BudgetActuals ==
  {0, 4000, -4000, 10000, 50000, -50000, 100000, -100000, 117000,
   900000, -900000, 1000000, 1500000, -1500000}

BudgetDraws == 0..99

InitBudget ==
  /\ entries = <<>>
  /\ customMappings = NoMappings
  /\ validationResult = Null
  /\ globalBalance = Null
  /\ unmappedEntries = <<>>
  /\ operatingModel = <<>>
  /\ allAccounts = <<>>
  /\ pc = "call"
  /\ call \in {[fn |-> "generateMockBudget", actualAmount |-> Num(a), random |-> r] :
                 a \in BudgetActuals, r \in BudgetDraws}
  /\ returned = Null
  /\ unmappedAccounts = <<>>
  /\ isProcessing = FALSE
  /\ error = Null

GenerateMockBudget ==
  /\ pc = "call"
  /\ call.fn = "generateMockBudget"
  /\ returned' = generateMockBudget(call.actualAmount, call.random)
  /\ pc' = "return"
  /\ UNCHANGED <<unmappedAccounts, isProcessing, error,
                 entries, customMappings, validationResult, globalBalance,
                 unmappedEntries, operatingModel, allAccounts, call>>

NextBudget == GenerateMockBudget

SpecBudget == InitBudget /\ [][NextBudget]_vars

\* actual times the multiplier, in millionths
Varied(c) == c.actualAmount.v * (850 + 3 * c.random)

Magnitude(x) == IF x < 0 THEN -x ELSE x

\* the rounding step that the claim names for r, in units
StepFor(r) ==
  IF Magnitude(r) < 100 * 1000000 THEN 10
  ELSE IF Magnitude(r) < 1000 * 1000000 THEN 50
  ELSE 100

\* C14: generateMockBudget returns 0 when actual is 0; otherwise, with
\* r = actual times a multiplier in [0.85, 1.15], it returns a multiple of
\* the step of r (10 when |r| < 100, 50 when 100 <= |r| < 1000, 100 from
\* 1000 on) that differs from r by at most half that step, so the budget
\* is a multiple of 10 and never has the opposite sign of actual.
C14_BudgetRounding ==
  (pc = "return" /\ call.fn = "generateMockBudget") =>
    LET actual == call.actualAmount.v
        r      == Varied(call)
        budget == returned.v
    IN  /\ ~returned.nan
        /\ actual = 0 => budget = 0
        /\ actual # 0 =>
             /\ budget % (StepFor(r) * 1000) = 0
             /\ 2 * Magnitude(budget * 1000 - r) <= StepFor(r) * 1000000
        /\ budget % 10000 = 0
        /\ ~(actual > 0 /\ budget < 0)
        /\ ~(actual < 0 /\ budget > 0)

\* 900 times 1.147 is 1032.3, rounded to 1000 with the step of 100
C14_Witness ==
  /\ pc = "return"
  /\ call = [fn |-> "generateMockBudget", actualAmount |-> Num(900000), random |-> 99]
  /\ returned = Num(1000000)

\* the account details of the tree beneath a row
RECURSIVE DetailsBeneath(_)
DetailsBeneath(row) ==
  IF row.type = "concept" THEN Elems(row.accountDetails)
  ELSE UNION {DetailsBeneath(child) : child \in Elems(row.children)}

AllDetails == UNION {DetailsBeneath(c) : c \in CategoryRows}

\* the indices of the mapped entries behind an account detail
IndicesOfDetail(d) ==
  {i \in 1..Len(entries) : Classification(i) # <<>> /\ entries[i].CompteNum = d.compteNum}

\* the budget drawn during the call for account detail d at month m
DrawnBudget(d, m) ==
  generateMockBudget(Movement(IndicesOfDetail(d), m), call.random[<<d.compteNum, m>>])

\* the sum of the budgets drawn at month m for the account details beneath
\* a row that have an amount in that month
DrawnBeneath(row, m) ==
  SumOver({d \in DetailsBeneath(row) : m \in MonthKeys(IndicesOfDetail(d))},
          LAMBDA d : DrawnBudget(d, m))

\* the running sum of a per-month series over its month keys up to m
RunningSum(series, m) ==
  SumOver({k \in DOMAIN series : k = m \/ LexLess(k, m)}, LAMBDA k : series[k])

\* C15: for every row of the tree and every account detail, monthlyBudgets
\* has the month keys of monthlyAmounts; in a stock category its value at m
\* is the running sum, over the node's month keys in ascending order, of the
\* budgets drawn per month beneath the node, as monthlyAmounts is the
\* running sum of the movements; in any other category it is the budget
\* drawn for month m alone.
C15_BudgetsMirrorAmounts ==
  pc = "processed" =>
    /\ \A r \in TreeRows \cup AllDetails :
         DOMAIN r.monthlyBudgets = DOMAIN r.monthlyAmounts
    /\ \A r \in TreeRows :
         LET perMonth == [m \in DOMAIN r.monthlyAmounts |-> DrawnBeneath(r, m)]
         IN  \A m \in DOMAIN r.monthlyBudgets :
               r.monthlyBudgets[m] =
                 IF r.category \in StockCategories THEN RunningSum(perMonth, m)
                 ELSE perMonth[m]
    /\ \A r \in ConceptRows : \A d \in Elems(r.accountDetails) :
         LET perMonth == [m \in DOMAIN d.monthlyAmounts |-> DrawnBudget(d, m)]
         IN  \A m \in DOMAIN d.monthlyBudgets :
               d.monthlyBudgets[m] =
                 IF r.category \in StockCategories THEN RunningSum(perMonth, m)
                 ELSE perMonth[m]

\* a stock category of two months whose budgets read as running sums, next
\* to a flow category
C15_Witness ==
  /\ pc = "processed"
  /\ \E c \in CategoryRows :
       /\ c.category \in StockCategories
       /\ DOMAIN c.monthlyBudgets = {Month202501, Month202502}
       /\ c.monthlyBudgets[Month202502] =
            Add(c.monthlyBudgets[Month202501], DrawnBeneath(c, Month202502))
       /\ c.monthlyBudgets[Month202501] # Num(0)
       /\ DrawnBeneath(c, Month202502) # Num(0)
  /\ \E c \in CategoryRows :
       /\ c.category \notin StockCategories
       /\ c.monthlyBudgets # <<>>

\* the series before calculateCumulativeAmounts: under a stock category the
\* difference between each month and the month before it among the keys,
\* elsewhere the series itself
BeforeCumulative(category, series) ==
  [m \in DOMAIN series |->
     IF category \in StockCategories
     THEN LET earlier == {k \in DOMAIN series : LexLess(k, m)}
          IN  IF earlier = {} THEN series[m]
              ELSE Sub(series[m],
                       series[CHOOSE k \in earlier :
                                \A j \in earlier : j = k \/ LexLess(j, k)])
     ELSE series[m]]

\* the category of the row that holds account detail d
CategoryOfDetail(d) ==
  (CHOOSE r \in ConceptRows : d \in Elems(r.accountDetails)).category

\* the budget of account detail d at month m before the cumulative
\* transform, 0 where the detail has no key m
DetailBudgetAt(d, m) ==
  ValueAt(BeforeCumulative(CategoryOfDetail(d), d.monthlyBudgets), m)

\* C16: generateMockBudget is called once per account detail and month key,
\* with the net movement of that account in that month: before the
\* cumulative transform the budget of an account detail at m is the value
\* generated from that movement with the one draw of the pair, and the
\* budget of every concept, sub-category and category at m is the sum of
\* those values over the account details beneath it; in a flow category the
\* budget of a parent at m is the sum of its children's budgets at m.
C16_OneDrawPerAccountMonth ==
  pc = "processed" =>
    /\ DOMAIN call.random =
         UNION {{<<d.compteNum, m>> : m \in DOMAIN d.monthlyBudgets} : d \in AllDetails}
    /\ \A d \in AllDetails : \A m \in DOMAIN d.monthlyBudgets :
         DetailBudgetAt(d, m) = DrawnBudget(d, m)
    /\ \A r \in TreeRows : \A m \in DOMAIN r.monthlyBudgets :
         BeforeCumulative(r.category, r.monthlyBudgets)[m] =
           SumOver(DetailsBeneath(r), LAMBDA d : DetailBudgetAt(d, m))
    /\ \A r \in CategoryRows \cup SubCategoryRows :
         r.category \notin StockCategories =>
           \A m \in DOMAIN r.monthlyBudgets :
             r.monthlyBudgets[m] =
               SumOfSeriesAt(r.children, LAMBDA child : child.monthlyBudgets, m)

\* a row above two accounts with a budget in the same month, the budget of
\* the row before the cumulative transform being the sum of the two values
\* drawn
C16_Witness ==
  /\ pc = "processed"
  /\ \E r \in TreeRows : \E m \in DOMAIN r.monthlyBudgets :
       \E d1, d2 \in DetailsBeneath(r) :
         /\ d1 # d2
         /\ m \in DOMAIN d1.monthlyBudgets
         /\ m \in DOMAIN d2.monthlyBudgets
         /\ DrawnBudget(d1, m) # Num(0)
         /\ DrawnBudget(d2, m) # Num(0)
         /\ call.random[<<d1.compteNum, m>>] # call.random[<<d2.compteNum, m>>]
         /\ BeforeCumulative(r.category, r.monthlyBudgets)[m] =
              Add(DrawnBudget(d1, m), DrawnBudget(d2, m))

\* a date without the blanks around it
Stripped(date) == IF IsBlank(date) THEN <<>> ELSE Core(date)

\* "YYYY-MM" from the first six characters of the stripped date, the empty
\* key when there are fewer than six
ExpectedMonthKey(date) ==
  IF Len(Stripped(date)) < 6 THEN <<>>
  ELSE <<Stripped(date)[1], Stripped(date)[2], Stripped(date)[3], Stripped(date)[4],
         "-", Stripped(date)[5], Stripped(date)[6]>>

\* the entries of a set of indices that have a month key
Dated(I) == {i \in I : ExpectedMonthKey(entries[i].EcritureDate) # <<>>}

\* the sum over the months of a node's series before the cumulative
\* transform
SumOfBuckets(category, series) ==
  SumOver(DOMAIN series, LAMBDA m : BeforeCumulative(category, series)[m])

\* what C17 states of a node (a row or an account detail) of a category over
\* the entries I: its month keys are the keys of the dated entries, its
\* month buckets hold the dated entries and no other
BucketsOfDatedOnly(node, category, I) ==
  /\ DOMAIN node.monthlyAmounts =
       {ExpectedMonthKey(entries[i].EcritureDate) : i \in Dated(I)}
  /\ DOMAIN node.monthlyBudgets = DOMAIN node.monthlyAmounts
  /\ SumOfBuckets(category, node.monthlyAmounts) = SumOver(Dated(I), DebitMinusCredit)

\* C17: the month key of an entry is "YYYY-MM" from the first six characters
\* of its trimmed date, and the empty key when the trimmed date has fewer
\* than six; an entry with the empty key is in no month bucket of
\* monthlyAmounts or monthlyBudgets of any node, and its net amount is in
\* the netAmount of its account detail and in the amount of its concept,
\* sub-category and category.
C17_ShortDateOutsideMonths ==
  pc = "processed" =>
    /\ \A r \in TreeRows :
         /\ BucketsOfDatedOnly(r, r.category, IndicesUnder(r))
         /\ r.amount =
              Add(SumOfBuckets(r.category, r.monthlyAmounts),
                  SumOver(IndicesUnder(r) \ Dated(IndicesUnder(r)), DebitMinusCredit))
    /\ \A d \in AllDetails :
         /\ BucketsOfDatedOnly(d, CategoryOfDetail(d), IndicesOfDetail(d))
         /\ d.netAmount =
              Add(SumOfBuckets(CategoryOfDetail(d), d.monthlyAmounts),
                  SumOver(IndicesOfDetail(d) \ Dated(IndicesOfDetail(d)),
                          DebitMinusCredit))

\* an account with an entry of 2025-02 written after a blank and an entry
\* whose date has five characters: one month key, and a net amount that is
\* not the amount of that month
C17_Witness ==
  /\ pc = "processed"
  /\ \E d \in AllDetails : \E i, j \in IndicesOfDetail(d) :
       /\ entries[i].EcritureDate = DatePadded20250220
       /\ entries[j].EcritureDate = DateShort
       /\ DOMAIN d.monthlyAmounts = {Month202502}
       /\ DOMAIN d.monthlyBudgets = {Month202502}
       /\ d.monthlyAmounts[Month202502] = DebitMinusCredit(i)
       /\ d.netAmount = Add(DebitMinusCredit(i), DebitMinusCredit(j))
       /\ DebitMinusCredit(j) # Num(0)
       /\ \E r \in CategoryRows : IndicesUnder(r) = {i, j} /\ r.amount = d.netAmount

(***************************************************************************)
(* The account views: ledgers of up to MaxAccountLines lines over accounts *)
(* that nothing maps (one written after a blank, one blank), accounts that *)
(* the static table maps (by an exact entry, once normalized, by a prefix  *)
(* rule), with and without a session override for an unmapped account.     *)
(***************************************************************************)

MaxAccountLines == 3

Acc888Padded == <<" ", "8", "8", "8">>

Acc888000000 == <<"8", "8", "8", "0", "0", "0", "0", "0", "0">>

AccBlank == <<" ">>

AccountEntryDomain ==
  { TreeEntry(Acc999, "Suspense", Date20250115, 100000, 0),
    TreeEntry(Acc888Padded, "Transit", Date20250115, 0, 150000),
    TreeEntry(AccBlank, "", Date20250115, 20000, 0),
    TreeEntry(Acc61352003, "Software", Date20250115, 100000, 0),
    TreeEntry(Acc512000000, "Bank", Date20250115, 50000, 0),
    TreeEntry(Acc411, "Customers", Date20250115, 40000, 0),
    TreeEntry(Acc411000000, "Trade Receivables", Date20250115, 60000, 10000) }

InitAccounts ==
  /\ entries \in SeqsUpTo(AccountEntryDomain, MaxAccountLines)
  /\ customMappings \in {NoMappings, [k \in {Acc999000000} |-> MappingToCash]}
  /\ InitResults

SpecAccounts == InitAccounts /\ [][Next]_vars

\* the account number of the entry of index i without the blanks around it
WrittenNum(i) == Stripped(entries[i].CompteNum)

\* the number under which the entry of index i is aggregated: the written
\* number with zeros up to nine characters, the empty number as it is
KeyOf(i) ==
  IF WrittenNum(i) = <<>> \/ Len(WrittenNum(i)) >= NormLen THEN WrittenNum(i)
  ELSE WrittenNum(i) \o [k \in 1..(NormLen - Len(WrittenNum(i))) |-> "0"]

\* the two static steps: the fallback lookup of the written number, then the
\* exact lookup of the aggregation number
StaticResolution(i) ==
  IF getMappingWithFallback(WrittenNum(i)) # Null
  THEN getMappingWithFallback(WrittenNum(i))
  ELSE getMappingForAccount(KeyOf(i))

FailsStatic(i) == StaticResolution(i) = Null

\* the entries aggregated under key among the indices I
GroupOf(key, I) == {i \in I : KeyOf(i) = key}

\* the record x holds the totals of the entries of indices G
TotalsOver(x, G) ==
  /\ x.count = Cardinality(G)
  /\ x.totalDebit = SumOver(G, LAMBDA i : EntryDebit(entries[i]))
  /\ x.totalCredit = SumOver(G, LAMBDA i : EntryCredit(entries[i]))
  /\ x.netAmount = Sub(x.totalDebit, x.totalCredit)

Unmapped == {i \in 1..Len(entries) : FailsStatic(i)}

\* C18: the list of getUnmappedEntries is determined by the entries and the
\* static table: it holds one record per aggregation number (the normalized
\* number, the raw one when normalization is empty) of the entries for
\* which both static steps fail, with count, totalDebit and totalCredit over
\* exactly those entries and netAmount = totalDebit - totalCredit; an
\* account whose normalized number has a session override is listed all
\* the same.
C18_UnmappedIgnoresOverrides ==
  pc \in {"unmapped", "accounts", "processed"} =>
    /\ {unmappedEntries[u].compteNum : u \in 1..Len(unmappedEntries)} =
         {KeyOf(i) : i \in Unmapped}
    /\ Len(unmappedEntries) = Cardinality({KeyOf(i) : i \in Unmapped})
    /\ \A u \in 1..Len(unmappedEntries) :
         TotalsOver(unmappedEntries[u], GroupOf(unmappedEntries[u].compteNum, Unmapped))
    /\ \A i \in Unmapped :
         KeyOf(i) \in DOMAIN customMappings =>
           \E u \in 1..Len(unmappedEntries) : unmappedEntries[u].compteNum = KeyOf(i)

\* two entries of an account that only the session override maps, beside a
\* mapped entry: the account listed once with a count of 2
C18_Witness ==
  /\ pc = "unmapped"
  /\ Len(entries) = 3
  /\ \E i \in 1..3 : ~FailsStatic(i)
  /\ \E i, j \in Unmapped :
       /\ i # j
       /\ KeyOf(i) = Acc999000000
       /\ KeyOf(j) = Acc999000000
  /\ Acc999000000 \in DOMAIN customMappings
  /\ Len(unmappedEntries) = 1
  /\ unmappedEntries[1].compteNum = Acc999000000
  /\ unmappedEntries[1].count = 2
  /\ unmappedEntries[1].netAmount = Num(200000)

AllIndices == 1..Len(entries)

C20_OutputOrdering ==
  pc = "processed" =>
    /\ \A i, j \in 1..Len(operatingModel) :
         i < j => CollationRank(operatingModel[i].category)
                    < CollationRank(operatingModel[j].category)
    /\ \A i, j \in 1..Len(unmappedEntries) :
         i < j => ~Lt(Abs(unmappedEntries[i].netAmount), Abs(unmappedEntries[j].netAmount))
    /\ \A i, j \in 1..Len(allAccounts) :
         i < j => LexLess(allAccounts[i].compteNum, allAccounts[j].compteNum)

\* a ledger whose lines come in the opposite of each order: an expense
\* before an asset, the smaller unmapped amount before the larger, the
\* larger account number before the smaller
C20_Witness ==
  /\ pc = "processed"
  /\ Len(operatingModel) = 2
  /\ ResolveMapping(entries[1], customMappings) # Null
  /\ ResolveMapping(entries[1], customMappings).grandeCategorie # operatingModel[1].category
  /\ Len(unmappedEntries) = 2
  /\ unmappedEntries[1].compteNum = Acc888000000
  /\ unmappedEntries[2].compteNum = Acc999000000
  /\ \E i, j \in 1..Len(entries) : i < j /\ KeyOf(i) = Acc999000000 /\ KeyOf(j) = Acc888000000
  /\ Len(allAccounts) = 3
  /\ \E i, j \in 1..Len(entries) : i < j /\ LexLess(KeyOf(j), KeyOf(i))

(***************************************************************************)
(* The monthly series: ledgers of up to MaxSeriesLines lines over the      *)
(* mapped lines of TreeEntryDomain (two accounts of a stock category in    *)
(* one month, one account in two months and at a short date, an account of *)
(* a flow category), with and without the override that moves an account   *)
(* to a flow category.                                                     *)
(***************************************************************************)

MaxSeriesLines == 3

SeriesEntryDomain == {e \in TreeEntryDomain : e.CompteNum # Acc999}

InitSeries ==
  /\ entries \in SeqsUpTo(SeriesEntryDomain, MaxSeriesLines)
  /\ customMappings \in {NoMappings, [k \in {Acc411000000} |-> MappingToRevenue]}
  /\ InitResults

SpecSeries == InitSeries /\ [][Next]_vars

(***************************************************************************)
(* Row identity: ledgers of up to MaxRowLines lines in which one account   *)
(* is written in two ways (999 and 999000000, 61352003 and 613520030),     *)
(* with session overrides whose sub-category and concept names contain the *)
(* separator of the row ids.                                               *)
(***************************************************************************)

MaxRowLines == 3

MappingToCashPetty ==
  [concept |-> "Petty", grandeCategorie |-> "Current Assets", sousCategorie |-> "Cash"]

MappingToCashPettyCoins ==
  [concept |-> "Coins", grandeCategorie |-> "Current Assets",
   sousCategorie |-> "Cash-Petty"]

RowEntryDomain ==
  { TreeEntry(Acc999, "Suspense", Date20250115, 100000, 0),
    TreeEntry(Acc999000000, "Suspense", Date20250115, 30000, 0),
    TreeEntry(Acc888Padded, "Transit", Date20250115, 20000, 0),
    TreeEntry(Acc61352003, "Software", Date20250115, 100000, 0),
    TreeEntry(Acc613520030, "Software", Date20250115, 50000, 0) }

RowMappingChoices ==
  { NoMappings,
    [k \in {Acc999000000} |-> MappingToCashPetty],
    [k \in {Acc999000000, Acc888000000} |->
       IF k = Acc999000000 THEN MappingToCashPetty ELSE MappingToCashPettyCoins] }

InitRows ==
  /\ entries \in SeqsUpTo(RowEntryDomain, MaxRowLines)
  /\ customMappings \in RowMappingChoices
  /\ InitResults

SpecRows == InitRows /\ [][Next]_vars

---------------------------------------------------------------------------
(* The FEC page and its uploader.  `entries` is the page's fecData,        *)
(* `unmappedAccounts` the worksheet of unmapped accounts, `isProcessing`   *)
(* the flag of FileUploader, `error` the page's error, `call` the parse    *)
(* that Papa.parse has not completed yet, with the customMappings that the *)
(* onFileProcessed passed to the uploader at that time closes over.  The   *)
(* page's own isProcessing is set and cleared within one handler and is    *)
(* left out.  Header spellings are the canonical ones.                     *)

RequiredColumns == {"EcritureNum", "CompteNum", "Debit", "Credit"}

Message(text) == [isNull |-> FALSE, message |-> text]

\* what Papa.parse yields for a .csv file that can be read: the columns of
\* the header and the data rows
CsvFile(columns, data) ==
  [csv |-> TRUE, fails |-> FALSE, columns |-> columns, data |-> data]

\* a file that cannot be read
UnreadableFile == [csv |-> TRUE, fails |-> TRUE, columns |-> {}, data |-> <<>>]

\* a file whose name does not end in .csv
OtherFile == [csv |-> FALSE, fails |-> FALSE, columns |-> {}, data |-> <<>>]

\* an unmapped account at a date without month, a mapped account in 2025-01
PageLedger ==
  << TreeEntry(Acc999, "Suspense", DateShort, 100000, 0),
     TreeEntry(Acc61352003, "Software", Date20250115, 100000, 0) >>

Files ==
  { CsvFile(RequiredColumns, PageLedger),
    CsvFile(RequiredColumns \ {"Debit"}, PageLedger),
    CsvFile(RequiredColumns, <<>>),
    UnreadableFile,
    OtherFile }

\* the mapping the operator saves: another concept of the sub-category of
\* the ledger's mapped account
MappingToHosting ==
  [concept |-> "Hosting", grandeCategorie |-> "Operating Expenses (OPEX)",
   sousCategorie |-> "R&D Expenses"]

PageMappings == {MappingToHosting}

\* a filter that keeps every account
FilterUnmappedNone(unmapped, cm) == unmapped

\* unmapped.filter((account) => !customMappings.has(account.compteNum))
FilterUnmapped(unmapped, cm) ==
  SelectSeq(unmapped, LAMBDA account : account.compteNum \notin DOMAIN cm)

\* new Map(customMappings) followed by set(compteNum, mapping)
MapSet(cm, compteNum, mapping) ==
  [k \in DOMAIN cm \cup {compteNum} |-> IF k = compteNum THEN mapping ELSE cm[k]]

\* mappings.forEach(({ account, mapping }) => newMap.set(...))
MapSetAll(cm, mappings) ==
  LET f[i \in 0..Len(mappings)] ==
        IF i = 0 THEN cm
        ELSE MapSet(f[i - 1], mappings[i].account.compteNum, mappings[i].mapping)
  IN  f[Len(mappings)]

\* the row with its isCollapsed negated
Toggled(row) == [row EXCEPT !.isCollapsed = ~@]

\* the updater of handleCategoryToggle
handleCategoryToggle(prev, categoryId) ==
  [i \in 1..Len(prev) |->
     IF prev[i].id = categoryId /\ prev[i].type = "category"
     THEN Toggled(prev[i]) ELSE prev[i]]

\* the updater of handleSubCategoryToggle
handleSubCategoryToggle(prev, categoryId, subCategoryId) ==
  [i \in 1..Len(prev) |->
     IF prev[i].id = categoryId /\ prev[i].type = "category"
     THEN [prev[i] EXCEPT !.children =
             [j \in 1..Len(@) |->
                IF @[j].id = subCategoryId THEN Toggled(@[j]) ELSE @[j]]]
     ELSE prev[i]]

\* an updater that toggles every concept of the sub-category
handleConceptToggleAll(prev, categoryId, subCategoryId, conceptId) ==
  [i \in 1..Len(prev) |->
     IF prev[i].id = categoryId
     THEN [prev[i] EXCEPT !.children =
             [j \in 1..Len(@) |->
                IF @[j].id = subCategoryId
                THEN [@[j] EXCEPT !.children =
                        [k \in 1..Len(@) |-> Toggled(@[k])]]
                ELSE @[j]]]
     ELSE prev[i]]

\* the updater of handleConceptToggle
handleConceptToggle(prev, categoryId, subCategoryId, conceptId) ==
  [i \in 1..Len(prev) |->
     IF prev[i].id = categoryId
     THEN [prev[i] EXCEPT !.children =
             [j \in 1..Len(@) |->
                IF @[j].id = subCategoryId
                THEN [@[j] EXCEPT !.children =
                        [k \in 1..Len(@) |->
                           IF @[k].id = conceptId THEN Toggled(@[k]) ELSE @[k]]]
                ELSE @[j]]]
     ELSE prev[i]]

InitPage ==
  /\ entries = <<>>
  /\ customMappings = NoMappings
  /\ pc = "page"
  /\ validationResult = Null
  /\ globalBalance = Null
  /\ unmappedEntries = <<>>
  /\ operatingModel = <<>>
  /\ allAccounts = <<>>
  /\ call = Null
  /\ returned = Null
  /\ unmappedAccounts = <<>>
  /\ isProcessing = FALSE
  /\ error = Null

\* handleFile: a name that is not .csv is refused at once, any other file
\* is given to Papa.parse
HandleFileOf(file) ==
  /\ pc = "page"
  /\ IF ~file.csv
     THEN /\ error' = Message("Veuillez selectionner un fichier CSV")
          /\ UNCHANGED <<isProcessing, call>>
     ELSE /\ isProcessing' = TRUE
          /\ error' = Message("")
          /\ call' = [fn |-> "Papa.parse", file |-> file,
                      customMappings |-> customMappings]
  /\ UNCHANGED <<entries, customMappings, pc, validationResult, globalBalance,
                 unmappedEntries, operatingModel, allAccounts, returned,
                 unmappedAccounts>>

\* handleFileInput: the input is disabled while isProcessing
HandleFileInput ==
  /\ ~isProcessing
  /\ \E file \in Files : HandleFileOf(file)

\* handleDrop: the drop zone takes a file whatever isProcessing; one parse
\* at a time is in flight in the model
HandleDrop ==
  /\ call = Null
  /\ \E file \in Files : HandleFileOf(file)

\* handleFileProcessed(data) of the render whose customMappings is cm
HandleFileProcessed(data, cm) ==
  /\ error' = Null
  /\ entries' = data
  /\ validationResult' = validateEcritures(data)
  /\ globalBalance' = calculateGlobalBalance(data)
  /\ unmappedAccounts' = FilterUnmapped(getUnmappedEntries(data), cm)
  /\ \E draw \in [BudgetPairs(data, cm) -> RandomDraws] :
       operatingModel' = processRawFEC(data, cm, draw)

\* the columns that no header of the file matches: none
NoColumnsMissing(columns) == {}

\* requiredColumns.filter((col) => !findColumn(col))
missingColumns(columns) == RequiredColumns \ columns

\* the complete callback of Papa.parse: validateAndProcess(results.data)
ValidateAndProcess ==
  /\ pc = "page"
  /\ call # Null
  /\ ~call.file.fails
  /\ call' = Null
  /\ IF Len(call.file.data) = 0
     THEN /\ error' = Message("Le fichier CSV est vide")
          /\ UNCHANGED <<entries, validationResult, globalBalance,
                         unmappedAccounts, operatingModel, isProcessing>>
     ELSE IF missingColumns(call.file.columns) # {}
     THEN /\ error' = Message("Colonnes manquantes")
          /\ UNCHANGED <<entries, validationResult, globalBalance,
                         unmappedAccounts, operatingModel, isProcessing>>
     ELSE /\ HandleFileProcessed(call.file.data, call.customMappings)
          /\ isProcessing' = FALSE
  /\ UNCHANGED <<customMappings, pc, unmappedEntries, allAccounts, returned>>

\* the error callback of Papa.parse
ParseError ==
  /\ pc = "page"
  /\ call # Null
  /\ call.file.fails
  /\ call' = Null
  /\ error' = Message("Erreur lors du parsing du CSV")
  /\ isProcessing' = FALSE
  /\ UNCHANGED <<entries, customMappings, pc, validationResult, globalBalance,
                 unmappedEntries, operatingModel, allAccounts, returned,
                 unmappedAccounts>>

\* the compteNum of the accounts that the worksheet and the spreadsheet of
\* all accounts offer for mapping
OfferedAccounts ==
  {unmappedAccounts[i].compteNum : i \in 1..Len(unmappedAccounts)}
    \cup (IF Len(entries) = 0 THEN {}
          ELSE {getAllAccounts(entries)[i].compteNum :
                  i \in 1..Len(getAllAccounts(entries))})

\* the part of handleSaveMapping and handleSaveMappingsBatch after newMap
SaveMappings(newMap) ==
  /\ pc = "page"
  /\ customMappings' = newMap
  /\ IF Len(entries) > 0
     THEN /\ \E draw \in [BudgetPairs(entries, newMap) -> RandomDraws] :
               operatingModel' = processRawFEC(entries, newMap, draw)
          /\ unmappedAccounts' = FilterUnmapped(getUnmappedEntries(entries), newMap)
     ELSE UNCHANGED <<operatingModel, unmappedAccounts>>
  /\ UNCHANGED <<entries, pc, validationResult, globalBalance, unmappedEntries,
                 allAccounts, call, returned, isProcessing, error>>

HandleSaveMapping ==
  \E compteNum \in OfferedAccounts : \E mapping \in PageMappings :
    SaveMappings(MapSet(customMappings, compteNum, mapping))

MaxBatch == 2

\* the batches of up to MaxBatch pairs that the spreadsheet can hand over
Batches ==
  SeqsUpTo({[account |-> [compteNum |-> a], mapping |-> m] :
              a \in OfferedAccounts, m \in PageMappings}, MaxBatch)

HandleSaveMappingsBatch ==
  \E newMap \in {MapSetAll(customMappings, mappings) : mappings \in Batches} :
    SaveMappings(newMap)

HandleCategoryToggle ==
  /\ pc = "page"
  /\ \E c \in 1..Len(operatingModel) :
       operatingModel' = handleCategoryToggle(operatingModel, operatingModel[c].id)
  /\ UNCHANGED <<entries, customMappings, pc, validationResult, globalBalance,
                 unmappedEntries, allAccounts, call, returned, unmappedAccounts,
                 isProcessing, error>>

HandleSubCategoryToggle ==
  /\ pc = "page"
  /\ \E c \in 1..Len(operatingModel) :
       \E s \in 1..Len(operatingModel[c].children) :
         operatingModel' =
           handleSubCategoryToggle(operatingModel, operatingModel[c].id,
                                   operatingModel[c].children[s].id)
  /\ UNCHANGED <<entries, customMappings, pc, validationResult, globalBalance,
                 unmappedEntries, allAccounts, call, returned, unmappedAccounts,
                 isProcessing, error>>

HandleConceptToggle ==
  /\ pc = "page"
  /\ \E c \in 1..Len(operatingModel) :
       \E s \in 1..Len(operatingModel[c].children) :
         \E k \in 1..Len(operatingModel[c].children[s].children) :
           operatingModel' =
             handleConceptToggle(operatingModel, operatingModel[c].id,
                                 operatingModel[c].children[s].id,
                                 operatingModel[c].children[s].children[k].id)
  /\ UNCHANGED <<entries, customMappings, pc, validationResult, globalBalance,
                 unmappedEntries, allAccounts, call, returned, unmappedAccounts,
                 isProcessing, error>>

\* handleReset: the button is rendered when operatingModel.length > 0
HandleReset ==
  /\ pc = "page"
  /\ Len(operatingModel) > 0
  /\ entries' = <<>>
  /\ operatingModel' = <<>>
  /\ error' = Null
  /\ validationResult' = Null
  /\ globalBalance' = Null
  /\ unmappedAccounts' = <<>>
  /\ customMappings' = NoMappings
  /\ UNCHANGED <<pc, unmappedEntries, allAccounts, call, returned, isProcessing>>

NextPage ==
  \/ HandleFileInput
  \/ HandleDrop
  \/ ValidateAndProcess
  \/ ParseError
  \/ HandleSaveMapping
  \/ HandleSaveMappingsBatch
  \/ HandleCategoryToggle
  \/ HandleSubCategoryToggle
  \/ HandleConceptToggle
  \/ HandleReset

SpecPage == InitPage /\ [][NextPage]_vars

\* a file that validateAndProcess hands to onFileProcessed
Accepted(file) ==
  /\ ~file.fails
  /\ Len(file.data) > 0
  /\ RequiredColumns \subseteq file.columns

\* a parsed file with no data row, or with no column for a required name
Rejected(file) ==
  /\ ~file.fails
  /\ \/ Len(file.data) = 0
     \/ ~(RequiredColumns \subseteq file.columns)

\* C21: when the parse of a file that has no data row, or that lacks a
\* column for one of EcritureNum, CompteNum, Debit, Credit, completes, the
\* uploader reports a non-empty error message and onFileProcessed is not
\* called: the entries, the operating model, the worksheet, the validation
\* result and the balance are left as they were.
C21_RejectedUploadKeepsCore ==
  [][(call # Null /\ call' = Null /\ Rejected(call.file))
       => /\ error' # Null
          /\ error'.message # ""
          /\ UNCHANGED <<entries, operatingModel, unmappedAccounts,
                         validationResult, globalBalance, customMappings>>]_vars

\* C21 witness: a file without the Debit column was rejected after a ledger
\* had been loaded, and the loaded ledger is still there
C21_Witness ==
  /\ error = Message("Colonnes manquantes")
  /\ call = Null
  /\ entries = PageLedger
  /\ Len(operatingModel) > 0

\* a row with isCollapsed set aside, at every level
RECURSIVE ExceptCollapse(_)
ExceptCollapse(row) ==
  [row EXCEPT
     !.isCollapsed = FALSE,
     !.children = [i \in 1..Len(@) |-> ExceptCollapse(@[i])]]

\* a tree with the values of monthlyBudgets and the isCollapsed flags set aside
Displayed(tree) ==
  [i \in 1..Len(tree) |-> ExceptCollapse(ExceptBudgetValues(tree[i]))]

\* processRawFEC on the current entries and the current override map
CurrentTree ==
  processRawFEC(entries, customMappings,
                [p \in BudgetPairs(entries, customMappings) |-> 0])

\* C22 (as stated, refuted): after any sequence of file loads, saves, batch
\* saves, toggles and resets the displayed operating model equals
\* processRawFEC(current entries, current override map) except for the
\* values of monthlyBudgets and the isCollapsed flags.
C22_TreeFollowsEntriesAndOverrides ==
  Displayed(operatingModel) = Displayed(CurrentTree)

\* C23 (as stated, refuted): after any sequence of loads, saves, batch saves
\* and resets, no account of the unmapped worksheet has a number that is a
\* key of the session override map.
C23_WorksheetExcludesOverridden ==
  \A i \in 1..Len(unmappedAccounts) :
    unmappedAccounts[i].compteNum \notin DOMAIN customMappings

\* the positions of the rows of a tree: <<c>>, <<c, s>>, <<c, s, k>>
Paths(tree) ==
  {<<c>> : c \in 1..Len(tree)}
    \cup UNION {{<<c, s>> : s \in 1..Len(tree[c].children)} : c \in 1..Len(tree)}
    \cup UNION {UNION {{<<c, s, k>> : k \in 1..Len(tree[c].children[s].children)} :
                         s \in 1..Len(tree[c].children)} : c \in 1..Len(tree)}

RowAt(tree, p) ==
  IF Len(p) = 1 THEN tree[p[1]]
  ELSE IF Len(p) = 2 THEN tree[p[1]].children[p[2]]
  ELSE tree[p[1]].children[p[2]].children[p[3]]

\* after differs from before in the isCollapsed of the row at p, negated,
\* and in nothing else
FlipsExactly(before, after, p) ==
  /\ [i \in 1..Len(after) |-> ExceptCollapse(after[i])]
       = [i \in 1..Len(before) |-> ExceptCollapse(before[i])]
  /\ \A q \in Paths(before) :
       RowAt(after, q).isCollapsed
         = IF q = p THEN ~RowAt(before, q).isCollapsed
           ELSE RowAt(before, q).isCollapsed

\* the flags of a tree that processRawFEC returns
FreshFlags(tree) ==
  \A q \in Paths(tree) : RowAt(tree, q).isCollapsed = (Len(q) > 1)

ToggleStep ==
  HandleCategoryToggle \/ HandleSubCategoryToggle \/ HandleConceptToggle

C25_RowIdsPairwiseDistinct ==
  pc = "processed" =>
    \A p, q \in Paths(operatingModel) :
      p # q => RowAt(operatingModel, p).id # RowAt(operatingModel, q).id

\* C28 (as stated, refuted): a concept row has at most one account detail
\* and at most one element of accountNumbers for a normalized account number.
C28_OneDetailPerNormalizedAccount ==
  pc = "processed" =>
    \A row \in ConceptRows :
      /\ \A i, j \in 1..Len(row.accountDetails) :
           i # j => normalizeAccountNumber(row.accountDetails[i].compteNum)
                      # normalizeAccountNumber(row.accountDetails[j].compteNum)
      /\ \A i, j \in 1..Len(row.accountNumbers) :
           i # j => normalizeAccountNumber(row.accountNumbers[i])
                      # normalizeAccountNumber(row.accountNumbers[j])

\* the fields that the two account views have in common
ViewOf(account) ==
  [compteNum |-> account.compteNum, totalDebit |-> account.totalDebit,
   totalCredit |-> account.totalCredit, netAmount |-> account.netAmount,
   count |-> account.count]

LinesOfAccount(key) ==
  {i \in 1..Len(entries) : normalizeAccountNumber(entries[i].CompteNum) = key}

\* every line of the account key is in the tree under the triple of mapping
\* and under no other concept, with the net amount of its lines, and the
\* account is not on the worksheet
RoundTrip(key, mapping) ==
  /\ \A i \in LinesOfAccount(key) :
       /\ \E row \in ConceptRows :
            /\ row.category = mapping.grandeCategorie
            /\ row.subCategory = mapping.sousCategorie
            /\ row.concept = mapping.concept
            /\ \E d \in Elems(row.accountDetails) :
                 /\ d.compteNum = entries[i].CompteNum
                 /\ d.netAmount
                      = SumSeq(SelectSeq(entries,
                                 LAMBDA e : e.CompteNum = entries[i].CompteNum),
                               NetAmount)
       /\ \A row \in ConceptRows :
            entries[i].CompteNum \in Elems(row.accountNumbers)
              => /\ row.category = mapping.grandeCategorie
                 /\ row.subCategory = mapping.sousCategorie
                 /\ row.concept = mapping.concept
  /\ \A j \in 1..Len(unmappedAccounts) : unmappedAccounts[j].compteNum # key

RoundTripOfOverrides ==
  \A key \in DOMAIN customMappings : RoundTrip(key, customMappings[key])

\* C26: a save of a mapping under the compteNum of a record of the worksheet
\* (getUnmappedEntries) or of the spreadsheet of all accounts (getAllAccounts)
\* leaves, in the same step, a tree in which every line of that account is
\* under the saved triple, and a worksheet without the account: the key that
\* is stored is the key that processRawFEC looks up.  After every step that
\* adds to the override map or changes a mapping in it this holds for every
\* key of the map.
C26_MappingRoundTrip ==
  [][(customMappings' # customMappings /\ customMappings' # NoMappings)
       => /\ \A compteNum \in OfferedAccounts : \A mapping \in PageMappings :
               customMappings' = MapSet(customMappings, compteNum, mapping)
                 => /\ LinesOfAccount(compteNum) # {}
                    /\ RoundTrip(compteNum, mapping)'
          /\ DOMAIN customMappings' \subseteq OfferedAccounts \cup DOMAIN customMappings
          /\ RoundTripOfOverrides']_vars

\* C26 witness: the unmapped account 999 of the loaded ledger has been saved
\* under Hosting, its line is under the concept Hosting and the worksheet is
\* empty
C26_Witness ==
  /\ entries = PageLedger
  /\ Acc999000000 \in DOMAIN customMappings
  /\ unmappedAccounts = <<>>
  /\ \E row \in ConceptRows :
       row.concept = "Hosting" /\ Acc999 \in Elems(row.accountNumbers)

\* the latest month key of a series
LatestMonth(series) ==
  CHOOSE m \in DOMAIN series : \A k \in DOMAIN series : k = m \/ LexLess(k, m)

\* what C29 states of a node of a category whose total is total
SeriesReachesTotal(category, series, total) ==
  IF category \in StockCategories
  THEN series # <<>> /\ series[LatestMonth(series)] = total
  ELSE SumOver(DOMAIN series, LAMBDA m : series[m]) = total

\* C29: for every row and every account detail all of whose entries have a
\* month key, in a stock category monthlyAmounts at its latest month key is
\* the node's amount (netAmount for an account detail), and in any other
\* category the sum of monthlyAmounts over all its month keys is.
C29_SeriesReachTotal ==
  pc = "processed" =>
    /\ \A r \in TreeRows :
         Dated(IndicesUnder(r)) = IndicesUnder(r)
           => SeriesReachesTotal(r.category, r.monthlyAmounts, r.amount)
    /\ \A d \in AllDetails :
         Dated(IndicesOfDetail(d)) = IndicesOfDetail(d)
           => SeriesReachesTotal(CategoryOfDetail(d), d.monthlyAmounts, d.netAmount)

\* C29 witness: a row of a stock category with two month keys, every entry
\* dated, whose amount is not the movement of its latest month, next to a row
\* of another category whose entries are dated
C29_Witness ==
  /\ pc = "processed"
  /\ \E r \in TreeRows :
       /\ r.category \in StockCategories
       /\ Dated(IndicesUnder(r)) = IndicesUnder(r)
       /\ Cardinality(DOMAIN r.monthlyAmounts) = 2
       /\ r.monthlyAmounts[LatestMonth(r.monthlyAmounts)] = r.amount
       /\ Movement(IndicesUnder(r), LatestMonth(r.monthlyAmounts)) # r.amount
  /\ \E r \in TreeRows :
       /\ r.category \notin StockCategories
       /\ Dated(IndicesUnder(r)) = IndicesUnder(r)
       /\ SumOver(DOMAIN r.monthlyAmounts, LAMBDA m : r.monthlyAmounts[m]) = r.amount
       /\ r.amount # Num(0)

\* The page with its scheduling: Papa.parse calls complete or error once it
\* has read the file, so a pending parse does not stay pending for ever.
\* What the user does (selecting, dropping, saving, toggling, resetting) is
\* under no fairness.
FairSpecPage ==
  SpecPage /\ WF_vars(ValidateAndProcess) /\ WF_vars(ParseError)

\* C30 (as stated, refuted): every upload attempt leaves the uploader ready
\* again: whenever isProcessing is true, the pending parse completes
\* (accepted, rejected as empty, rejected for missing columns, or failed) and
\* isProcessing is false again.
C30_UploaderReadyAgain ==
  isProcessing ~> ~isProcessing

====
